---- MODULE Spec2Model ----
(***************************************************************************)
(* A model of the deSEC API client (nrdcg/desec).  The client is stateless *)
(* between calls: every service operation builds one endpoint and one      *)
(* request, hands it to the HTTP transport, and maps the response (or the  *)
(* transport failure) to a result.  One action models one whole call; the  *)
(* transport and the server are the environment, drawn with \E.            *)
(***************************************************************************)
EXTENDS Integers, Sequences, FiniteSets, TLC

VARIABLES
    client,   \* the Client: BaseURL and token (written by the constructor only)
    op,       \* name of the operation of the last call
    args,     \* its arguments
    req,      \* the request handed to the transport, NoRequest when none was sent
    resp,     \* what the transport returned
    ret,      \* what the operation returned: [val, err]
    respBody, \* the body of the response: "none", "open" or "closed"
    calls     \* the calls goroutines are making on the client, step by step

vars == <<client, op, args, req, resp, ret, respBody, calls>>

(***************************** bounds ***************************************)
\* longest record list of an RRSet the model enumerates
MaxRecords == 1
\* longest RRSet list handed to a bulk operation
MaxBulk == 2
\* longest segment list handed to createEndpoint on its own
MaxSegments == 2

(************************ optional values ***********************************)
\* a Go nil pointer / nil slice is None, a set value is Some(x)
None == <<>>
Some(x) == <<x>>
IsNone(o) == Len(o) = 0
IsSome(o) == Len(o) = 1
Val(o) == o[1]

(***************************** JSON *****************************************)
JNull == [t |-> "null"]
JStr(s) == [t |-> "str", v |-> s]
JNum(n) == [t |-> "num", v |-> n]
JBool(b) == [t |-> "bool", v |-> b]
JArr(s) == [t |-> "arr", v |-> s]
JObj(f) == [t |-> "obj", v |-> f]
NoFields == <<>>

\* encoding/json, a string field tagged omitempty
OmitEmptyStr(k, s) == IF s = "" THEN NoFields ELSE k :> JStr(s)
\* encoding/json, an int field tagged omitempty
OmitEmptyInt(k, n) == IF n = 0 THEN NoFields ELSE k :> JNum(n)
\* encoding/json, a bool field tagged omitempty
OmitEmptyBool(k, b) == IF b THEN k :> JBool(b) ELSE NoFields
\* encoding/json, a *time.Time field tagged omitempty
OmitEmptyPtr(k, p) == IF IsNone(p) THEN NoFields ELSE k :> JStr(Val(p))
\* encoding/json, a *string field without omitempty: nil is null
NullablePtr(k, p) == k :> (IF IsNone(p) THEN JNull ELSE JStr(Val(p)))
\* encoding/json, a []string field without omitempty: nil is null, empty is []
NullableStrings(k, l) ==
    k :> (IF IsNone(l) THEN JNull
          ELSE JArr([i \in 1..Len(Val(l)) |-> JStr(Val(l)[i])]))

HasKey(j, k) == j.t = "obj" /\ k \in DOMAIN j.v

(***************************** errors ***************************************)
\* An error value: kind is its Go type, the other fields are what it carries.
\*   none      nil
\*   wrapped   an fmt.Errorf error; phase names the failing phase, and for the
\*             "error: %d: %s" errors status and body are part of the message
\*   NotFound  the NotFound type, with its decoded detail
\*   APIError  the APIError type, with the status code and the raw body
Error(kind, phase, status, body, detail) ==
    [kind |-> kind, phase |-> phase, status |-> status, body |-> body,
     detail |-> detail]
NoError == Error("none", "", 0, None, "")
Wrapped(phase) == Error("wrapped", phase, 0, None, "")

(************************** program constants *******************************)
ApexZone == "@"
IgnoreFilter == "#IGNORE#"
StatusOK == 200
StatusCreated == 201
StatusAccepted == 202
StatusNoContent == 204
StatusBadRequest == 400
StatusNotFound == 404
FullResource == "PUT"
OnlyFields == "PATCH"

(***************************** URLs *****************************************)
\* A path is the sequence of its segments after the leading slash:
\* "" is <<>>, "/" is <<"">>, "/api/v1/" is <<"api", "v1", "">>.
\* A query is a function from parameter names to values.
NoQuery == <<>>

\* path.Clean, one element at a time: empty and "." elements go, ".."
\* removes the element before it (and goes itself at the root).
CleanStep(done, elem) ==
    IF elem = "" \/ elem = "." THEN done
    ELSE IF elem = ".." THEN
         (IF done = <<>> THEN done ELSE SubSeq(done, 1, Len(done) - 1))
    ELSE Append(done, elem)

RECURSIVE CleanFrom(_, _)
CleanFrom(done, rest) ==
    IF rest = <<>> THEN done ELSE CleanFrom(CleanStep(done, Head(rest)), Tail(rest))

\* path.Clean on the segments of a joined path
Clean(segs) == CleanFrom(<<>>, segs)

\* Client.createEndpoint: [err, url].  path.Join drops empty elements and the
\* trailing slash; base.Parse resolves the joined path against the base (an
\* empty reference keeps the base's path and query, any other reference
\* carries no query of its own); then "/" is appended.
createEndpoint(c, parts) ==
    IF ~c.BaseURL.ok THEN [err |-> TRUE, url |-> [path |-> <<>>, query |-> NoQuery]]
    ELSE LET base == c.BaseURL
             joined == Clean(base.path \o parts)
             empty == base.path = <<>> /\ joined = <<>>
             resolved == IF empty THEN [path |-> base.path, query |-> base.query]
                         ELSE IF joined = <<>> THEN [path |-> <<"">>, query |-> NoQuery]
                         ELSE [path |-> joined, query |-> NoQuery]
         IN  [err |-> FALSE,
              url |-> [path |-> Append(resolved.path, ""), query |-> resolved.query]]

\* Client.newRequest: the body is the JSON encoding of reqBody when one is
\* given; Content-Type is always set, Authorization only for a non-empty token.
newRequest(c, method, endpoint, reqBody) ==
    [method |-> method,
     url    |-> endpoint,
     body   |-> reqBody,
     header |-> ("Content-Type" :> <<"application/json">>)
                @@ (IF c.token /= "" THEN "Authorization" :> <<"Token", c.token>>
                    ELSE <<>>)]

(************************** responses ***************************************)
\* What the transport hands back: ok is FALSE when Do returns an error;
\* otherwise status is the status code, readOK says whether reading the body
\* succeeds, and content is the body: CEmpty (no bytes), CText (bytes that are
\* not JSON) or a JSON value.
CEmpty == [t |-> "empty"]
CText == [t |-> "text"]
\* the transport returned an error instead of a response: its cause
TransportFailure ==
    [ok |-> FALSE, status |-> 0, readOK |-> FALSE, content |-> CEmpty,
     cause |-> "connection refused"]
\* the error the transport returns for a request whose context is cancelled
Canceled == [TransportFailure EXCEPT !.cause = "context canceled"]
\* fmt.Errorf("failed to call API: %w", err): the cause stays in the chain
CallFailed(out) == Error("wrapped", "transport", 0, None, out.cause)
Response(status, readOK, content) ==
    [ok |-> TRUE, status |-> status, readOK |-> readOK, content |-> content]

IsJSON(c) == c.t \in {"null", "str", "num", "bool", "arr", "obj"}

\* json.Unmarshal of one member: an absent key or a null leaves the zero value
StrField(j, k) == IF HasKey(j, k) /\ j.v[k].t = "str" THEN j.v[k].v ELSE ""
IntField(j, k) == IF HasKey(j, k) /\ j.v[k].t = "num" THEN j.v[k].v ELSE 0
BoolField(j, k) == IF HasKey(j, k) /\ j.v[k].t = "bool" THEN j.v[k].v ELSE FALSE
PtrField(j, k) == IF HasKey(j, k) /\ j.v[k].t = "str" THEN Some(j.v[k].v) ELSE None
StringsField(j, k) ==
    IF HasKey(j, k) /\ j.v[k].t = "arr"
    THEN Some([i \in 1..Len(j.v[k].v) |-> j.v[k].v[i].v])
    ELSE None
\* a member whose JSON type does not fit the Go field fails the decoding
FieldFits(j, k, types) == HasKey(j, k) => j.v[k].t \in (types \cup {"null"})

(***************************** RRSet ****************************************)
RRSet(name, domain, subName, type, records, ttl, created, touched) ==
    [Name |-> name, Domain |-> domain, SubName |-> subName, Type |-> type,
     Records |-> records, TTL |-> ttl, Created |-> created, Touched |-> touched]

\* the JSON encoding of an RRSet, by its struct tags
EncodeRRSet(r) ==
    JObj(OmitEmptyStr("name", r.Name) @@ OmitEmptyStr("domain", r.Domain)
         @@ OmitEmptyStr("subname", r.SubName) @@ OmitEmptyStr("type", r.Type)
         @@ NullableStrings("records", r.Records) @@ OmitEmptyInt("ttl", r.TTL)
         @@ OmitEmptyPtr("created", r.Created) @@ OmitEmptyPtr("touched", r.Touched))
EncodeRRSets(l) == JArr([i \in 1..Len(l) |-> EncodeRRSet(l[i])])

RRSetFits(j) ==
    /\ FieldFits(j, "name", {"str"}) /\ FieldFits(j, "domain", {"str"})
    /\ FieldFits(j, "subname", {"str"}) /\ FieldFits(j, "type", {"str"})
    /\ FieldFits(j, "records", {"arr"}) /\ FieldFits(j, "ttl", {"num"})
    /\ FieldFits(j, "created", {"str"}) /\ FieldFits(j, "touched", {"str"})
ZeroRRSet == RRSet("", "", "", "", None, 0, None, None)
DecodeRRSetObj(j) ==
    RRSet(StrField(j, "name"), StrField(j, "domain"), StrField(j, "subname"),
          StrField(j, "type"), StringsField(j, "records"), IntField(j, "ttl"),
          PtrField(j, "created"), PtrField(j, "touched"))

(***************************** Domain ***************************************)
DomainKey(dnskey, ds, flags, keytype) ==
    [DNSKey |-> dnskey, DS |-> ds, Flags |-> flags, KeyType |-> keytype]
Domain(name, minimumTTL, keys, created, published) ==
    [Name |-> name, MinimumTTL |-> minimumTTL, Keys |-> keys, Created |-> created,
     Published |-> published]
ZeroDomain == Domain("", 0, None, None, None)

DomainKeyFits(j) ==
    /\ j.t \in {"obj", "null"}
    /\ FieldFits(j, "dnskey", {"str"}) /\ FieldFits(j, "ds", {"arr"})
    /\ FieldFits(j, "flags", {"num"}) /\ FieldFits(j, "keytype", {"str"})
DecodeDomainKey(j) ==
    DomainKey(StrField(j, "dnskey"), StringsField(j, "ds"), IntField(j, "flags"),
              StrField(j, "keytype"))
DomainFits(j) ==
    /\ FieldFits(j, "name", {"str"}) /\ FieldFits(j, "minimum_ttl", {"num"})
    /\ FieldFits(j, "keys", {"arr"})
    /\ (HasKey(j, "keys") /\ j.v["keys"].t = "arr")
       => \A i \in 1..Len(j.v["keys"].v) : DomainKeyFits(j.v["keys"].v[i])
    /\ FieldFits(j, "created", {"str"}) /\ FieldFits(j, "published", {"str"})
DecodeDomainObj(j) ==
    Domain(StrField(j, "name"), IntField(j, "minimum_ttl"),
           IF HasKey(j, "keys") /\ j.v["keys"].t = "arr"
           THEN Some([i \in 1..Len(j.v["keys"].v) |-> DecodeDomainKey(j.v["keys"].v[i])])
           ELSE None,
           PtrField(j, "created"), PtrField(j, "published"))

(***************************** Token ****************************************)
ZeroToken ==
    [ID |-> "", Created |-> None, LastUsed |-> None, Owner |-> "",
     UserOverride |-> "", Name |-> "", PermCreateDomain |-> FALSE,
     PermDeleteDomain |-> FALSE, PermManageTokens |-> FALSE, IsValid |-> FALSE,
     AllowedSubnets |-> None, AutoPolicy |-> FALSE, Value |-> ""]
TokenFits(j) ==
    /\ FieldFits(j, "id", {"str"}) /\ FieldFits(j, "created", {"str"})
    /\ FieldFits(j, "last_used", {"str"}) /\ FieldFits(j, "owner", {"str"})
    /\ FieldFits(j, "user_override", {"str"}) /\ FieldFits(j, "name", {"str"})
    /\ FieldFits(j, "perm_create_domain", {"bool"})
    /\ FieldFits(j, "perm_delete_domain", {"bool"})
    /\ FieldFits(j, "perm_manage_tokens", {"bool"})
    /\ FieldFits(j, "is_valid", {"bool"}) /\ FieldFits(j, "allowed_subnets", {"arr"})
    /\ FieldFits(j, "auto_policy", {"bool"}) /\ FieldFits(j, "token", {"str"})
DecodeTokenObj(j) ==
    [ID |-> StrField(j, "id"), Created |-> PtrField(j, "created"),
     LastUsed |-> PtrField(j, "last_used"), Owner |-> StrField(j, "owner"),
     UserOverride |-> StrField(j, "user_override"), Name |-> StrField(j, "name"),
     PermCreateDomain |-> BoolField(j, "perm_create_domain"),
     PermDeleteDomain |-> BoolField(j, "perm_delete_domain"),
     PermManageTokens |-> BoolField(j, "perm_manage_tokens"),
     IsValid |-> BoolField(j, "is_valid"),
     AllowedSubnets |-> StringsField(j, "allowed_subnets"),
     AutoPolicy |-> BoolField(j, "auto_policy"), Value |-> StrField(j, "token")]

\* encoding/json, a []string field tagged omitempty: nil and empty are omitted
OmitEmptyStrings(k, l) ==
    IF IsNone(l) \/ Val(l) = <<>> THEN NoFields
    ELSE k :> JArr([i \in 1..Len(Val(l)) |-> JStr(Val(l)[i])])
\* encoding/json, a bool field without omitempty
PlainBool(k, b) == k :> JBool(b)

EncodeToken(t) ==
    JObj(OmitEmptyStr("id", t.ID) @@ OmitEmptyPtr("created", t.Created)
         @@ OmitEmptyPtr("last_used", t.LastUsed) @@ OmitEmptyStr("owner", t.Owner)
         @@ OmitEmptyStr("user_override", t.UserOverride)
         @@ OmitEmptyStr("name", t.Name)
         @@ PlainBool("perm_create_domain", t.PermCreateDomain)
         @@ PlainBool("perm_delete_domain", t.PermDeleteDomain)
         @@ PlainBool("perm_manage_tokens", t.PermManageTokens)
         @@ OmitEmptyBool("is_valid", t.IsValid)
         @@ OmitEmptyStrings("allowed_subnets", t.AllowedSubnets)
         @@ PlainBool("auto_policy", t.AutoPolicy) @@ OmitEmptyStr("token", t.Value))

(*************************** TokenPolicy ************************************)
TokenPolicy(id, domain, subName, type, writePermission) ==
    [ID |-> id, Domain |-> domain, SubName |-> subName, Type |-> type,
     WritePermission |-> writePermission]
ZeroTokenPolicy == TokenPolicy("", None, None, None, FALSE)

\* EncodeTokenPolicy with omitempty on the three pointers
EncodeTokenPolicy_OmitEmpty(p) ==
    JObj(OmitEmptyStr("id", p.ID) @@ OmitEmptyPtr("domain", p.Domain)
         @@ OmitEmptyPtr("subname", p.SubName) @@ OmitEmptyPtr("type", p.Type)
         @@ OmitEmptyBool("perm_write", p.WritePermission))

\* the JSON encoding of a TokenPolicy, by its struct tags
EncodeTokenPolicy(p) ==
    JObj(OmitEmptyStr("id", p.ID) @@ NullablePtr("domain", p.Domain)
         @@ NullablePtr("subname", p.SubName) @@ NullablePtr("type", p.Type)
         @@ OmitEmptyBool("perm_write", p.WritePermission))
TokenPolicyFits(j) ==
    /\ FieldFits(j, "id", {"str"}) /\ FieldFits(j, "domain", {"str"})
    /\ FieldFits(j, "subname", {"str"}) /\ FieldFits(j, "type", {"str"})
    /\ FieldFits(j, "perm_write", {"bool"})
\* DecodeTokenPolicyObj for string fields in place of the pointers
DecodeTokenPolicyObj_Strings(j) ==
    TokenPolicy(StrField(j, "id"), Some(StrField(j, "domain")),
                Some(StrField(j, "subname")), Some(StrField(j, "type")),
                BoolField(j, "perm_write"))


DecodeTokenPolicyObj(j) ==
    TokenPolicy(StrField(j, "id"), PtrField(j, "domain"), PtrField(j, "subname"),
                PtrField(j, "type"), BoolField(j, "perm_write"))

(**************************** NotFound **************************************)
NotFoundFits(j) == FieldFits(j, "detail", {"str"})

(*************************** json.Unmarshal *********************************)
\* the struct a target names ("[]X" is a slice of X)
Fits(struct, j) ==
    CASE struct = "RRSet" -> RRSetFits(j)
      [] struct = "Domain" -> DomainFits(j)
      [] struct = "Token" -> TokenFits(j)
      [] struct = "TokenPolicy" -> TokenPolicyFits(j)
      [] struct = "NotFound" -> NotFoundFits(j)
DecodeObj(struct, j) ==
    CASE struct = "RRSet" -> DecodeRRSetObj(j)
      [] struct = "Domain" -> DecodeDomainObj(j)
      [] struct = "Token" -> DecodeTokenObj(j)
      [] struct = "TokenPolicy" -> DecodeTokenPolicyObj(j)
      [] struct = "NotFound" -> [Detail |-> StrField(j, "detail")]
Zero(struct) ==
    CASE struct = "RRSet" -> ZeroRRSet
      [] struct = "Domain" -> ZeroDomain
      [] struct = "Token" -> ZeroToken
      [] struct = "TokenPolicy" -> ZeroTokenPolicy
      [] struct = "NotFound" -> [Detail |-> ""]
Slices == {"[]RRSet", "[]Domain", "[]Token", "[]TokenPolicy"}
ElemOf(slice) ==
    CASE slice = "[]RRSet" -> "RRSet"
      [] slice = "[]Domain" -> "Domain"
      [] slice = "[]Token" -> "Token"
      [] slice = "[]TokenPolicy" -> "TokenPolicy"

\* json.Unmarshal into the target the caller passes: [ok, val].  Bytes that
\* are no JSON, and a value of the wrong JSON type, fail.  null decodes into
\* anything and leaves the target as it was: a zero struct, a nil slice.
Unmarshal(content, target) ==
    IF ~IsJSON(content) THEN [ok |-> FALSE, val |-> None]
    ELSE IF content.t = "null" THEN
         [ok |-> TRUE,
          val |-> IF target \in Slices THEN None ELSE Some(Zero(target))]
    ELSE IF target \in Slices THEN
         (IF content.t = "arr"
             /\ \A i \in 1..Len(content.v) :
                   content.v[i].t = "null"
                   \/ (content.v[i].t = "obj" /\ Fits(ElemOf(target), content.v[i]))
          THEN [ok |-> TRUE,
                val |-> Some([i \in 1..Len(content.v) |->
                              IF content.v[i].t = "null" THEN Zero(ElemOf(target))
                              ELSE DecodeObj(ElemOf(target), content.v[i])])]
          ELSE [ok |-> FALSE, val |-> None])
    ELSE IF content.t = "obj" /\ Fits(target, content)
         THEN [ok |-> TRUE, val |-> Some(DecodeObj(target, content))]
         ELSE [ok |-> FALSE, val |-> None]

\* handleResponse: [err, val]
handleResponse(r, target) ==
    IF ~r.readOK THEN
        [err |-> Error("APIError", "read", r.status, None, ""), val |-> None]
    ELSE LET d == Unmarshal(r.content, target)
         IN  IF ~d.ok THEN [err |-> Wrapped("decode"), val |-> None]
             ELSE [err |-> NoError, val |-> d.val]

\* readError(resp, &NotFound{}): the NotFound error with the detail of the body
readError(r) == Error("NotFound", "", 0, None, StrField(r.content, "detail"))
\* readRawError: the APIError with the status code and the raw body
readRawError(r) == Error("APIError", "", r.status, Some(r.content), "")

\* handleError without the NotFound case
handleError_Raw(r) == readRawError(r)

handleError(r) ==
    IF r.status = StatusNotFound THEN readError(r) ELSE readRawError(r)

(************************ the shape of a call *******************************)
\* What a call did: the request it sent (None when it sent none) and what it
\* returned.  A nil pointer or nil slice result is None.
Result(request, val, err) == [req |-> request, ret |-> [val |-> val, err |-> err]]

\* the tail returning the target it decoded into along with the error of
\* handleResponse
Decoded_WithTarget(request, out, accepted, target) ==
    IF ~out.ok THEN Result(Some(request), None, CallFailed(out))
    ELSE IF out.status /= accepted THEN Result(Some(request), None, handleError(out))
    ELSE LET d == handleResponse(out, target)
         IN  IF d.err.kind /= "none"
             THEN Result(Some(request),
                         IF target \in Slices THEN Some(<<>>) ELSE Some(Zero(target)),
                         d.err)
             ELSE Result(Some(request), d.val, NoError)


\* The tail every current-generation operation shares: the transport's error
\* is wrapped; a status other than the accepted one goes to handleError; the
\* body is decoded into target by handleResponse.
Decoded(request, out, accepted, target) ==
    IF ~out.ok THEN Result(Some(request), None, CallFailed(out))
    ELSE IF out.status /= accepted THEN Result(Some(request), None, handleError(out))
    ELSE LET d == handleResponse(out, target)
         IN  IF d.err.kind /= "none" THEN Result(Some(request), None, d.err)
             ELSE Result(Some(request), d.val, NoError)

\* The same for an operation that returns only an error.
Bare(request, out, accepted) ==
    IF ~out.ok THEN Result(Some(request), None, CallFailed(out))
    ELSE IF out.status /= accepted THEN Result(Some(request), None, handleError(out))
    ELSE Result(Some(request), None, NoError)

(************************** RecordsService **********************************)
\* the filter argument of GetAll: None is a nil filter
RRSetFilter(type, subName) == [Type |-> type, SubName |-> subName]
FilterRRSetOnlyOnType(t) == RRSetFilter(t, IgnoreFilter)
FilterRRSetOnlyOnSubName(n) == RRSetFilter(IgnoreFilter, n)

\* the query of GetAll with both fields of the filter set whatever their value
GetAllQuery_EveryField(query, filter) ==
    IF IsNone(filter) THEN query
    ELSE ("type" :> Val(filter).Type) @@ ("subname" :> Val(filter).SubName) @@ query


\* the query of GetAll: the endpoint's own query with type and subname set
GetAllQuery(query, filter) ==
    IF IsNone(filter) THEN query
    ELSE (IF Val(filter).Type /= IgnoreFilter THEN "type" :> Val(filter).Type
          ELSE <<>>)
         @@ (IF Val(filter).SubName /= IgnoreFilter
             THEN "subname" :> Val(filter).SubName ELSE <<>>)
         @@ query

RecordsService_GetAll(c, domainName, filter, out) ==
    LET e == createEndpoint(c, <<"domains", domainName, "rrsets">>)
    IN  IF e.err THEN Result(None, None, Wrapped("endpoint"))
        ELSE LET endpoint == [e.url EXCEPT !.query = GetAllQuery(e.url.query, filter)]
             IN  Decoded(newRequest(c, "GET", endpoint, None), out, StatusOK, "[]RRSet")

\* Create accepting 200 where the code accepts 201
RecordsService_Create_OK(c, rrSet, out) ==
    LET e == createEndpoint(c, <<"domains", rrSet.Domain, "rrsets">>)
    IN  IF e.err THEN Result(None, None, Wrapped("endpoint"))
        ELSE Decoded(newRequest(c, "POST", e.url, Some(EncodeRRSet(rrSet))), out,
                     StatusOK, "RRSet")

RecordsService_Create(c, rrSet, out) ==
    LET e == createEndpoint(c, <<"domains", rrSet.Domain, "rrsets">>)
    IN  IF e.err THEN Result(None, None, Wrapped("endpoint"))
        ELSE Decoded(newRequest(c, "POST", e.url, Some(EncodeRRSet(rrSet))), out,
                     StatusCreated, "RRSet")

\* RRSetEndpoint without the substitution of the apex
RRSetEndpoint_Raw(c, domainName, subName, recordType) ==
    createEndpoint(c, <<"domains", domainName, "rrsets", subName, recordType>>)

\* the endpoint of the operations on one RRSet: an empty subName is the apex
RRSetEndpoint(c, domainName, subName, recordType) ==
    createEndpoint(c, <<"domains", domainName, "rrsets",
                        IF subName = "" THEN ApexZone ELSE subName, recordType>>)

\* Get with the sub-name as it was given
RecordsService_Get_AsGiven(c, domainName, subName, recordType, out) ==
    LET e == createEndpoint(c, <<"domains", domainName, "rrsets", subName, recordType>>)
    IN  IF e.err THEN Result(None, None, Wrapped("endpoint"))
        ELSE Decoded(newRequest(c, "GET", e.url, None), out, StatusOK, "RRSet")


RecordsService_Get(c, domainName, subName, recordType, out) ==
    LET e == RRSetEndpoint(c, domainName, subName, recordType)
    IN  IF e.err THEN Result(None, None, Wrapped("endpoint"))
        ELSE Decoded(newRequest(c, "GET", e.url, None), out, StatusOK, "RRSet")

\* Modified without the 204 case
Modified_No204(request, out) == Decoded(request, out, StatusOK, "RRSet")

\* Update and Replace after the request is sent: 204 is a deleted RRSet
Modified(request, out) ==
    IF out.ok /\ out.status = StatusNoContent THEN Result(Some(request), None, NoError)
    ELSE Decoded(request, out, StatusOK, "RRSet")

RecordsService_Update(c, domainName, subName, recordType, rrSet, out) ==
    LET e == RRSetEndpoint(c, domainName, subName, recordType)
    IN  IF e.err THEN Result(None, None, Wrapped("endpoint"))
        ELSE Modified(newRequest(c, "PATCH", e.url, Some(EncodeRRSet(rrSet))), out)

RecordsService_Replace(c, domainName, subName, recordType, rrSet, out) ==
    LET e == RRSetEndpoint(c, domainName, subName, recordType)
    IN  IF e.err THEN Result(None, None, Wrapped("endpoint"))
        ELSE Modified(newRequest(c, "PUT", e.url, Some(EncodeRRSet(rrSet))), out)

RecordsService_Delete(c, domainName, subName, recordType, out) ==
    LET e == RRSetEndpoint(c, domainName, subName, recordType)
    IN  IF e.err THEN Result(None, None, Wrapped("endpoint"))
        ELSE Bare(newRequest(c, "DELETE", e.url, None), out, StatusNoContent)

RecordsService_BulkCreate(c, domainName, rrSets, out) ==
    LET e == createEndpoint(c, <<"domains", domainName, "rrsets">>)
    IN  IF e.err THEN Result(None, None, Wrapped("endpoint"))
        ELSE Decoded(newRequest(c, "POST", e.url, Some(EncodeRRSets(rrSets))), out,
                     StatusCreated, "[]RRSet")

RecordsService_BulkUpdate(c, mode, domainName, rrSets, out) ==
    LET e == createEndpoint(c, <<"domains", domainName, "rrsets">>)
    IN  IF e.err THEN Result(None, None, Wrapped("endpoint"))
        ELSE Decoded(newRequest(c, mode, e.url, Some(EncodeRRSets(rrSets))), out,
                     StatusOK, "[]RRSet")

\* deleteRRSets with the record list set to nil instead of an empty list
deleteRRSets_Nil(rrSets) ==
    [i \in 1..Len(rrSets) |-> [rrSets[i] EXCEPT !.Records = None]]

\* the list BulkDelete hands to BulkUpdate: copies with Records = []string{}
deleteRRSets(rrSets) ==
    [i \in 1..Len(rrSets) |-> [rrSets[i] EXCEPT !.Records = Some(<<>>)]]

\* the caller's slice after the loop, had the loop written through it
\* (rrSets[i].Records = []string{})
CallerRRSets_WrittenThrough(rrSets) == deleteRRSets(rrSets)

\* The caller's slice after the loop of BulkDelete: range copies each element
\* into rrSet, the assignment to rrSet.Records changes that copy, and the
\* copy goes into a slice of BulkDelete's own.
CallerRRSets(rrSets) == rrSets


\* BulkDelete handing BulkUpdate the list as it was given
RecordsService_BulkDelete_AsGiven(c, domainName, rrSets, out) ==
    LET r == RecordsService_BulkUpdate(c, FullResource, domainName, rrSets, out)
    IN  Result(r.req, None, r.ret.err)


RecordsService_BulkDelete(c, domainName, rrSets, out) ==
    LET r == RecordsService_BulkUpdate(c, FullResource, domainName,
                                       deleteRRSets(rrSets), out)
    IN  Result(r.req, None, r.ret.err)

(************************** TokensService ***********************************)
\* Get without the 404 case
TokensService_Get_No404(c, id, out) ==
    LET e == createEndpoint(c, <<"auth", "tokens", id>>)
    IN  IF e.err THEN Result(None, None, Wrapped("endpoint"))
        ELSE Decoded(newRequest(c, "GET", e.url, None), out, StatusOK, "Token")

TokensService_Get(c, id, out) ==
    LET e == createEndpoint(c, <<"auth", "tokens", id>>)
    IN  IF e.err THEN Result(None, None, Wrapped("endpoint"))
        ELSE LET request == newRequest(c, "GET", e.url, None)
             IN  IF out.ok /\ out.status = StatusNotFound
                 THEN Result(Some(request), None, NoError)
                 ELSE Decoded(request, out, StatusOK, "Token")

\* the copy of a token Update sends: the fields that can be modified
ModifiableToken(token) ==
    [ZeroToken EXCEPT !.Owner = token.Owner, !.UserOverride = token.UserOverride,
                      !.Name = token.Name,
                      !.PermCreateDomain = token.PermCreateDomain,
                      !.PermDeleteDomain = token.PermDeleteDomain,
                      !.PermManageTokens = token.PermManageTokens,
                      !.AllowedSubnets = token.AllowedSubnets,
                      !.AutoPolicy = token.AutoPolicy]

\* TokensService.Update sending the token as it was given
TokensService_Update_AsGiven(c, id, token, out) ==
    LET e == createEndpoint(c, <<"auth", "tokens", id>>)
    IN  IF e.err THEN Result(None, None, Wrapped("endpoint"))
        ELSE Decoded(newRequest(c, "PATCH", e.url, Some(EncodeToken(token))),
                     out, StatusOK, "Token")

TokensService_Update(c, id, token, out) ==
    LET e == createEndpoint(c, <<"auth", "tokens", id>>)
    IN  IF e.err THEN Result(None, None, Wrapped("endpoint"))
        ELSE Decoded(newRequest(c, "PATCH", e.url,
                                Some(EncodeToken(ModifiableToken(token)))),
                     out, StatusOK, "Token")

TokensService_Delete(c, tokenID, out) ==
    LET e == createEndpoint(c, <<"auth", "tokens", tokenID>>)
    IN  IF e.err THEN Result(None, None, Wrapped("endpoint"))
        ELSE Bare(newRequest(c, "DELETE", e.url, None), out, StatusNoContent)


(*********************** TokenPoliciesService *******************************)
TokenPoliciesService_Create(c, tokenID, policy, out) ==
    LET e == createEndpoint(c, <<"auth", "tokens", tokenID, "policies", "rrsets">>)
    IN  IF e.err THEN Result(None, None, Wrapped("endpoint"))
        ELSE Decoded(newRequest(c, "POST", e.url, Some(EncodeTokenPolicy(policy))),
                     out, StatusCreated, "TokenPolicy")

\* the policy Update sends: the fields that can be modified
Modifiable(policy) ==
    TokenPolicy("", policy.Domain, policy.SubName, policy.Type, policy.WritePermission)

TokenPoliciesService_Update(c, tokenID, policyID, policy, out) ==
    LET e == createEndpoint(c, <<"auth", "tokens", tokenID, "policies", "rrsets",
                                 policyID>>)
    IN  IF e.err THEN Result(None, None, Wrapped("endpoint"))
        ELSE Decoded(newRequest(c, "PATCH", e.url,
                                Some(EncodeTokenPolicy(Modifiable(policy)))),
                     out, StatusOK, "TokenPolicy")

TokenPoliciesService_Delete(c, tokenID, policyID, out) ==
    LET e == createEndpoint(c, <<"auth", "tokens", tokenID, "policies", "rrsets",
                                 policyID>>)
    IN  IF e.err THEN Result(None, None, Wrapped("endpoint"))
        ELSE Bare(newRequest(c, "DELETE", e.url, None), out, StatusNoContent)


\* TokenPoliciesService.GetAll, and TokensService.GetPolicies before it
TokenPoliciesService_GetAll(c, tokenID, out) ==
    LET e == createEndpoint(c, <<"auth", "tokens", tokenID, "policies", "rrsets">>)
    IN  IF e.err THEN Result(None, None, Wrapped("endpoint"))
        ELSE Decoded(newRequest(c, "GET", e.url, None), out, StatusOK, "[]TokenPolicy")


(************* the services of the generation without handleError ***********)
\* http.NewRequest and the two headers, as each of these operations sets
\* them: Authorization is set whatever the token is
legacyRequest(c, method, endpoint, reqBody) ==
    [method |-> method,
     url    |-> endpoint,
     body   |-> reqBody,
     header |-> ("Content-Type" :> <<"application/json">>)
                @@ ("Authorization" :> <<"Token", c.token>>)]

\* fmt.Errorf("error: %d: %s", resp.StatusCode, string(body))
StatusError(out) == Error("wrapped", "status", out.status, Some(out.content), "")

\* The tail these operations share: the body is read first, a status other
\* than the accepted one is an fmt.Errorf error, the body is decoded.
LegacyDecoded(request, out, accepted, target) ==
    IF ~out.ok THEN Result(Some(request), None, CallFailed(out))
    ELSE IF ~out.readOK THEN Result(Some(request), None, Wrapped("read"))
    ELSE IF out.status /= accepted THEN Result(Some(request), None, StatusError(out))
    ELSE LET d == Unmarshal(out.content, target)
         IN  IF ~d.ok THEN Result(Some(request), None, Wrapped("decode"))
             ELSE Result(Some(request), d.val, NoError)

Legacy_DomainsService_Create(c, domainName, out) ==
    LET e == createEndpoint(c, <<"domains">>)
    IN  IF e.err THEN Result(None, None, Wrapped("endpoint"))
        ELSE LegacyDecoded(legacyRequest(c, "POST", e.url,
                                         Some(JObj(OmitEmptyStr("name", domainName)))),
                           out, StatusCreated, "Domain")


Legacy_DomainsService_GetAll(c, out) ==
    LET e == createEndpoint(c, <<"domains">>)
    IN  IF e.err THEN Result(None, None, Wrapped("endpoint"))
        ELSE LegacyDecoded(legacyRequest(c, "GET", e.url, None), out, StatusOK,
                           "[]Domain")


Legacy_DomainsService_Get(c, domainName, out) ==
    LET e == createEndpoint(c, <<"domains", domainName>>)
    IN  IF e.err THEN Result(None, None, Wrapped("endpoint"))
        ELSE LegacyDecoded(legacyRequest(c, "GET", e.url, None), out, StatusOK,
                           "Domain")

Legacy_DomainsService_Delete(c, domainName, out) ==
    LET e == createEndpoint(c, <<"domains", domainName>>)
    IN  IF e.err THEN Result(None, None, Wrapped("endpoint"))
        ELSE LET request == legacyRequest(c, "DELETE", e.url, None)
             IN  IF ~out.ok THEN Result(Some(request), None, CallFailed(out))
                 ELSE IF out.status /= StatusNoContent
                 THEN Result(Some(request), None, StatusError(out))
                 ELSE Result(Some(request), None, NoError)


\* the endpoint of these operations on one RRSet
Legacy_RRSetEndpoint(c, domainName, subName, recordType) ==
    createEndpoint(c, <<"domains", domainName, "rrsets",
                        IF subName = "" THEN "@" ELSE subName, recordType>>)

Legacy_RecordsService_Get(c, domainName, subName, recordType, out) ==
    LET e == Legacy_RRSetEndpoint(c, domainName, subName, recordType)
    IN  IF e.err THEN Result(None, None, Wrapped("endpoint"))
        ELSE LET request == legacyRequest(c, "GET", e.url, None)
             IN  IF out.ok /\ out.readOK /\ out.status = StatusNotFound
                 THEN LET d == Unmarshal(out.content, "NotFound")
                      IN  IF ~d.ok THEN Result(Some(request), None, StatusError(out))
                          ELSE Result(Some(request), None,
                                      Error("NotFound", "", 0, None, Val(d.val).Detail))
                 ELSE LegacyDecoded(request, out, StatusOK, "RRSet")

\* the query of this GetAll: both parameters are set for every filter
Legacy_GetAllQuery(query, filter) ==
    IF IsNone(filter) THEN query
    ELSE ("type" :> Val(filter).Type) @@ ("subname" :> Val(filter).SubName) @@ query

Legacy_RecordsService_GetAll(c, domainName, filter, out) ==
    LET e == createEndpoint(c, <<"domains", domainName, "rrsets">>)
    IN  IF e.err THEN Result(None, None, Wrapped("endpoint"))
        ELSE LET endpoint == [e.url EXCEPT
                                 !.query = Legacy_GetAllQuery(e.url.query, filter)]
             IN  LegacyDecoded(legacyRequest(c, "GET", endpoint, None), out, StatusOK,
                               "[]RRSet")

Legacy_RecordsService_Update(c, domainName, subName, recordType, records, out) ==
    LET e == Legacy_RRSetEndpoint(c, domainName, subName, recordType)
    IN  IF e.err THEN Result(None, None, Wrapped("endpoint"))
        ELSE LET request ==
                   legacyRequest(c, "PATCH", e.url,
                       Some(EncodeRRSet([ZeroRRSet EXCEPT !.Records = records])))
             IN  IF out.ok /\ out.readOK /\ out.status = StatusNoContent
                 THEN Result(Some(request), None, NoError)
                 ELSE LegacyDecoded(request, out, StatusOK, "RRSet")

Legacy_RecordsService_Delete(c, domainName, subName, recordType, out) ==
    LET e == Legacy_RRSetEndpoint(c, domainName, subName, recordType)
    IN  IF e.err THEN Result(None, None, Wrapped("endpoint"))
        ELSE LET request == legacyRequest(c, "DELETE", e.url, None)
             IN  IF ~out.ok THEN Result(Some(request), None, CallFailed(out))
                 ELSE IF out.status /= StatusNoContent
                 THEN Result(Some(request), None, StatusError(out))
                 ELSE Result(Some(request), None, NoError)

(***************************** AccountClient ********************************)
Account(email, password) == [Email |-> email, Password |-> password,
                             LimitDomains |-> 0, Created |-> None]
EncodeAccount(a) ==
    JObj(("email" :> JStr(a.Email)) @@ ("password" :> JStr(a.Password))
         @@ OmitEmptyInt("limit_domains", a.LimitDomains)
         @@ OmitEmptyPtr("created", a.Created))
Captcha(id, challenge, solution) ==
    [ID |-> id, Challenge |-> challenge, Solution |-> solution]
EncodeCaptcha(c) ==
    JObj(OmitEmptyStr("id", c.ID) @@ OmitEmptyStr("challenge", c.Challenge)
         @@ OmitEmptyStr("solution", c.Solution))
Registration(email, password, newEmail, captcha) ==
    [Email |-> email, Password |-> password, NewEmail |-> newEmail,
     Captcha |-> captcha]
EncodeRegistration(r) ==
    JObj(OmitEmptyStr("email", r.Email) @@ OmitEmptyStr("password", r.Password)
         @@ OmitEmptyStr("new_email", r.NewEmail)
         @@ (IF IsNone(r.Captcha) THEN NoFields
             ELSE "captcha" :> EncodeCaptcha(Val(r.Captcha))))

\* http.NewRequest and the headers of the account client: Authorization only
\* in the operations that take a token, whatever the token is
accountRequest(endpoint, reqBody, token) ==
    [method |-> "POST",
     url    |-> endpoint,
     body   |-> reqBody,
     header |-> IF IsNone(token) THEN "Content-Type" :> <<"application/json">>
                ELSE ("Content-Type" :> <<"application/json">>)
                     @@ ("Authorization" :> <<"Token", Val(token)>>)]

\* AcceptedOnly reading the body before it looks at the status
AcceptedOnly_ReadFirst(request, out) ==
    IF ~out.ok THEN Result(Some(request), None, CallFailed(out))
    ELSE IF ~out.readOK THEN Result(Some(request), None, Wrapped("read"))
    ELSE IF out.status /= StatusAccepted
    THEN Result(Some(request), None, StatusError(out))
    ELSE Result(Some(request), None, NoError)

\* The tail of Register, PasswordReset, ChangeEmail and Delete: the body is
\* read only to report a status other than 202
AcceptedOnly(request, out) ==
    IF ~out.ok THEN Result(Some(request), None, CallFailed(out))
    ELSE IF out.status /= StatusAccepted
    THEN Result(Some(request), None, StatusError(out))
    ELSE Result(Some(request), None, NoError)

AccountClient_Logout(c, token, out) ==
    LET e == createEndpoint(c, <<"auth", "logout">>)
    IN  IF e.err THEN Result(None, None, Wrapped("endpoint"))
        ELSE LET request == accountRequest(e.url, None, Some(token))
             IN  IF ~out.ok THEN Result(Some(request), None, CallFailed(out))
                 ELSE IF ~out.readOK
                 THEN Result(Some(request), None, Wrapped("read"))
                 ELSE IF out.status /= StatusNoContent
                 THEN Result(Some(request), None, StatusError(out))
                 ELSE Result(Some(request), None, NoError)

AccountClient_Register(c, registration, out) ==
    LET e == createEndpoint(c, <<"auth">>)
    IN  IF e.err THEN Result(None, None, Wrapped("endpoint"))
        ELSE AcceptedOnly(accountRequest(e.url,
                              Some(EncodeRegistration(registration)), None), out)

AccountClient_PasswordReset(c, email, captcha, out) ==
    LET e == createEndpoint(c, <<"auth", "account", "reset-password">>)
    IN  IF e.err THEN Result(None, None, Wrapped("endpoint"))
        ELSE AcceptedOnly(accountRequest(e.url,
                 Some(EncodeRegistration(Registration(email, "", "", Some(captcha)))),
                 None), out)

AccountClient_ChangeEmail(c, email, password, newEmail, out) ==
    LET e == createEndpoint(c, <<"auth", "account", "change-email">>)
    IN  IF e.err THEN Result(None, None, Wrapped("endpoint"))
        ELSE AcceptedOnly(accountRequest(e.url,
                 Some(EncodeRegistration(Registration(email, password, newEmail, None))),
                 None), out)

AccountClient_Delete(c, email, password, out) ==
    LET e == createEndpoint(c, <<"auth", "account", "delete">>)
    IN  IF e.err THEN Result(None, None, Wrapped("endpoint"))
        ELSE AcceptedOnly(accountRequest(e.url,
                 Some(EncodeAccount(Account(email, password))), None), out)

(********************* DomainsService.GetResponsible ************************)
\* GetResponsible without the translation of an empty list
DomainsService_GetResponsible_Raw(c, qualifiedName, out) ==
    LET e == createEndpoint(c, <<"domains">>)
    IN  IF e.err THEN Result(None, None, Wrapped("endpoint"))
        ELSE LET endpoint == [e.url EXCEPT
                                 !.query = ("owns_qname" :> qualifiedName) @@ e.url.query]
                 r == Decoded(newRequest(c, "GET", endpoint, None), out, StatusOK,
                              "[]Domain")
             IN  IF r.ret.err.kind /= "none" THEN r
                 ELSE IF IsNone(r.ret.val) \/ Val(r.ret.val) = <<>>
                 THEN Result(r.req, Some(ZeroDomain), NoError)
                 ELSE Result(r.req, Some(Val(r.ret.val)[1]), NoError)

\* The domain list filtered by owns_qname: an empty list is NotFound, else the
\* first domain of the list is the result.
DomainsService_GetResponsible(c, qualifiedName, out) ==
    LET e == createEndpoint(c, <<"domains">>)
    IN  IF e.err THEN Result(None, None, Wrapped("endpoint"))
        ELSE LET endpoint == [e.url EXCEPT
                                 !.query = ("owns_qname" :> qualifiedName) @@ e.url.query]
                 r == Decoded(newRequest(c, "GET", endpoint, None), out, StatusOK,
                              "[]Domain")
             IN  IF r.ret.err.kind /= "none" THEN r
                 ELSE IF IsNone(r.ret.val) \/ Val(r.ret.val) = <<>>
                 THEN Result(r.req, None, Error("NotFound", "", 0, None, ""))
                 ELSE Result(r.req, Some(Val(r.ret.val)[1]), NoError)

(************************ the server's RRset resource ***********************)
\* the path of a request below the client's base path
Routed(c, request) ==
    LET base == SelectSeq(c.BaseURL.path, LAMBDA x : x /= "")
        p    == request.url.path
    IN  IF Len(p) >= Len(base) /\ SubSeq(p, 1, Len(base)) = base
        THEN SubSeq(p, Len(base) + 1, Len(p))
        ELSE <<"?">>

\* a body the server accepts for a new RRset: a type, records and a ttl
Creatable(b) ==
    /\ HasKey(b, "type") /\ HasKey(b, "ttl")
    /\ HasKey(b, "records") /\ b.v["records"].t = "arr" /\ b.v["records"].v /= <<>>

\* POST domains/<domain>/rrsets/: the resource the server stores and returns
\* with 201, or a 400
Server_CreateRRSet(c, request, now) ==
    LET p == Routed(c, request)
    IN  IF /\ request.method = "POST" /\ Len(p) = 4
           /\ p[1] = "domains" /\ p[3] = "rrsets" /\ p[4] = ""
           /\ IsSome(request.body) /\ Creatable(Val(request.body))
        THEN LET b == Val(request.body).v
                 subname == IF "subname" \in DOMAIN b THEN b["subname"].v ELSE ""
                 stored ==
                     JObj(("name" :> JStr(<<subname, p[2]>>))
                          @@ ("domain" :> JStr(p[2])) @@ ("subname" :> JStr(subname))
                          @@ ("type" :> b["type"]) @@ ("records" :> b["records"])
                          @@ ("ttl" :> b["ttl"]) @@ ("created" :> JStr(now))
                          @@ ("touched" :> JStr(now)))
             IN  [answer |-> Response(StatusCreated, TRUE, stored),
                  stored |-> Some(stored)]
        ELSE [answer |-> Response(StatusBadRequest, TRUE, JObj("detail" :> JStr("Invalid."))),
              stored |-> None]

\* GET domains/<domain>/rrsets/<subname>/<type>/: "@" names the apex
Server_GetRRSet(c, request, stored, now) ==
    LET p == Routed(c, request)
    IN  IF /\ request.method = "GET" /\ Len(p) = 6 /\ IsSome(stored)
           /\ p[1] = "domains" /\ p[3] = "rrsets" /\ p[6] = ""
           /\ Val(stored).v["domain"] = JStr(p[2])
           /\ Val(stored).v["subname"] = JStr(IF p[4] = "@" THEN "" ELSE p[4])
           /\ Val(stored).v["type"] = JStr(p[5])
        THEN Response(StatusOK, TRUE,
                      JObj(("touched" :> JStr(now)) @@ Val(stored).v))
        ELSE Response(StatusNotFound, TRUE, JObj("detail" :> JStr("Not found.")))

\* Create answered by the server, then, if it succeeded, Get of the same
\* (domain, sub-name, type) answered by the server
CreateThenGet(c, rrSet, t1, t2) ==
    LET sent == RecordsService_Create(c, rrSet, TransportFailure).req
    IN  IF IsNone(sent)
        THEN [created |-> RecordsService_Create(c, rrSet, TransportFailure),
              answer |-> TransportFailure,
              got |-> RecordsService_Create(c, rrSet, TransportFailure)]
        ELSE LET s  == Server_CreateRRSet(c, Val(sent), t1)
                 r1 == RecordsService_Create(c, rrSet, s.answer)
                 asked == RecordsService_Get(c, rrSet.Domain, rrSet.SubName,
                                             rrSet.Type, TransportFailure).req
                 a2 == Server_GetRRSet(c, Val(asked), s.stored, t2)
             IN  IF r1.ret.err.kind /= "none"
                 THEN [created |-> r1, answer |-> s.answer, got |-> r1]
                 ELSE [created |-> r1, answer |-> a2,
                       got |-> RecordsService_Get(c, rrSet.Domain, rrSet.SubName,
                                                  rrSet.Type, a2)]

(*********************** the server's RRset collection **********************)
\* an RRset the server holds for example.com
Stored(subname, type, now) ==
    JObj(("name" :> JStr(<<subname, "example.com">>))
         @@ ("domain" :> JStr("example.com")) @@ ("subname" :> JStr(subname))
         @@ ("type" :> JStr(type)) @@ ("records" :> JArr(<<JStr("1.1.1.1")>>))
         @@ ("ttl" :> JNum(300)) @@ ("created" :> JStr(now))
         @@ ("touched" :> JStr(now)))

\* the sub-name of a member of a bulk request: "" when it has none
SubNameOf(b) == IF HasKey(b, "subname") THEN b.v["subname"].v ELSE ""

\* a member of a bulk request the server accepts: a type and a record list,
\* and a ttl unless the list is empty
Replaceable(b) ==
    /\ b.t = "obj" /\ HasKey(b, "type") /\ HasKey(b, "records")
    /\ b.v["records"].t = "arr"
    /\ b.v["records"].v /= <<>> => HasKey(b, "ttl")

\* PUT domains/<domain>/rrsets/ with a list: an RRset named with an empty
\* record list is removed, one named with records is replaced, the others
\* stay; the answer is 200 with the RRsets that were written, or a 400
Server_BulkPut(c, request, store, now) ==
    LET p == Routed(c, request)
    IN  IF /\ request.method = "PUT" /\ Len(p) = 4
           /\ p[1] = "domains" /\ p[2] = "example.com" /\ p[3] = "rrsets" /\ p[4] = ""
           /\ IsSome(request.body) /\ Val(request.body).t = "arr"
           /\ \A i \in DOMAIN Val(request.body).v : Replaceable(Val(request.body).v[i])
        THEN LET l == Val(request.body).v
                 Named(s) == \E i \in DOMAIN l : /\ SubNameOf(l[i]) = s.v["subname"].v
                                                 /\ l[i].v["type"] = s.v["type"]
                 written == SelectSeq(l, LAMBDA b : b.v["records"].v /= <<>>)
                 Written(b) ==
                     JObj(("name" :> JStr(<<SubNameOf(b), p[2]>>))
                          @@ ("domain" :> JStr(p[2])) @@ ("subname" :> JStr(SubNameOf(b)))
                          @@ ("type" :> b.v["type"]) @@ ("records" :> b.v["records"])
                          @@ ("ttl" :> b.v["ttl"]) @@ ("created" :> JStr(now))
                          @@ ("touched" :> JStr(now)))
             IN  [answer |-> Response(StatusOK, TRUE,
                                      JArr([i \in 1..Len(written) |-> Written(written[i])])),
                  store |-> {s \in store : ~Named(s)}
                            \cup {Written(written[i]) : i \in 1..Len(written)}]
        ELSE [answer |-> Response(StatusBadRequest, TRUE, JObj("detail" :> JStr("Invalid."))),
              store |-> store]

\* GET of one RRset of the collection
Server_GetFrom(c, request, store, now) ==
    LET held == {s \in store :
                   Server_GetRRSet(c, request, Some(s), now).status = StatusOK}
    IN  Server_GetRRSet(c, request,
                        IF held = {} THEN None ELSE Some(CHOOSE s \in held : TRUE), now)

(*********************** the values the model draws *************************)
DefaultBaseURL == [ok |-> TRUE, path |-> <<"api", "v1", "">>, query |-> NoQuery]
\* the URL of a test server: no path
ServerBaseURL == [ok |-> TRUE, path |-> <<>>, query |-> NoQuery]
\* a BaseURL url.Parse rejects
MalformedBaseURL == [ok |-> FALSE, path |-> <<>>, query |-> NoQuery]

Clients ==
    { [BaseURL |-> DefaultBaseURL, token |-> "token"],
      [BaseURL |-> DefaultBaseURL, token |-> ""],
      [BaseURL |-> ServerBaseURL, token |-> "token"],
      [BaseURL |-> MalformedBaseURL, token |-> "token"] }

DomainNames == {"example.com", ""}
SubNames == {"", ApexZone, "www"}
RecordTypes == {"A", ""}
FilterValues == {"", "A", IgnoreFilter}
Filters == {None} \cup {Some(RRSetFilter(t, n)) : t \in FilterValues, n \in FilterValues}

RecordLists ==
    {None} \cup {Some(l) : l \in UNION {[1..n -> {"1.1.1.1"}] : n \in 0..MaxRecords}}
RRSets ==
    { RRSet("", "example.com", n, "A", l, ttl, None, None) :
        n \in {"", "www"}, l \in RecordLists, ttl \in {0, 300} }
BulkRRSets == { r \in RRSets : r.TTL = 300 /\ (r.SubName = "www" <=> IsSome(r.Records)) }
RRSetLists == UNION {[1..n -> BulkRRSets] : n \in 0..MaxBulk}

Statuses == {StatusOK, StatusCreated, StatusAccepted, StatusNoContent,
             StatusBadRequest, StatusNotFound}

DetailBody == JObj("detail" :> JStr("Not found."))
RRSetBody ==
    JObj(("name" :> JStr("www.example.com.")) @@ ("domain" :> JStr("example.com"))
         @@ ("subname" :> JStr("www")) @@ ("type" :> JStr("A"))
         @@ ("records" :> JArr(<<JStr("1.1.1.1")>>)) @@ ("ttl" :> JNum(300))
         @@ ("created" :> JStr("2020-05-06T11:46:07Z"))
         @@ ("touched" :> JStr("2020-05-06T11:46:07Z")))
\* an object whose records member is no array
MistypedBody == JObj("records" :> JStr("1.1.1.1"))
RRSetContents ==
    {CEmpty, CText, JNull, DetailBody, RRSetBody, MistypedBody,
     JArr(<<>>), JArr(<<RRSetBody>>)}

TokenIDs == {"aaa", ""}
\* tokens as a caller holds them: read from the server, then edited
Tokens ==
    { [ZeroToken EXCEPT !.ID = id, !.Value = v, !.Created = cr, !.LastUsed = lu,
                        !.IsValid = iv, !.Name = n, !.PermManageTokens = pm]
        : id \in {"", "aaa"}, v \in {"", "secret"},
          cr \in {None, Some("2018-09-06T09:08:43Z")},
          lu \in {None, Some("2018-09-07T10:00:00Z")}, iv \in BOOLEAN,
          n \in {"", "my token"}, pm \in BOOLEAN }

PolicyIDs == {"7aed3f71"}
Policies ==
    { TokenPolicy(id, d, n, t, w) :
        id \in {"", "7aed3f71"}, d \in {None, Some(""), Some("example.com")},
        n \in {None, Some("www")}, t \in {None, Some("A")}, w \in BOOLEAN }
QualifiedNames == {"git.dev.example.org", ""}

TokenBody ==
    JObj(("id" :> JStr("aaa")) @@ ("name" :> JStr("my token"))
         @@ ("created" :> JStr("2018-09-06T09:08:43Z")) @@ ("last_used" :> JNull)
         @@ ("perm_manage_tokens" :> JBool(TRUE)) @@ ("is_valid" :> JBool(TRUE))
         @@ ("allowed_subnets" :> JArr(<<JStr("0.0.0.0/0")>>)))
TokenContents == {CEmpty, CText, JNull, DetailBody, TokenBody, JArr(<<>>)}
\* the answers to Update
UpdatedTokenContents == {CText, TokenBody}

PolicyBody ==
    JObj(("id" :> JStr("7aed3f71")) @@ ("domain" :> JStr("example.com"))
         @@ ("subname" :> JStr("testing")) @@ ("type" :> JNull)
         @@ ("perm_write" :> JBool(FALSE)))
PolicyContents == {CEmpty, CText, JNull, PolicyBody}
TypedPolicyBody ==
    JObj(("id" :> JStr("fa6fdf60")) @@ ("domain" :> JStr("example.com"))
         @@ ("subname" :> JStr("testing")) @@ ("type" :> JStr("A"))
         @@ ("perm_write" :> JBool(TRUE)))
\* the default policy: it applies to every domain, sub-name and type
DefaultPolicyBody ==
    JObj(("id" :> JStr("3159e485")) @@ ("domain" :> JNull)
         @@ ("subname" :> JNull) @@ ("type" :> JNull))
PolicyListContents ==
    {CEmpty, CText, JNull, DetailBody, JArr(<<>>),
     JArr(<<PolicyBody, TypedPolicyBody>>), JArr(<<TypedPolicyBody, PolicyBody>>),
     JArr(<<DefaultPolicyBody, TypedPolicyBody, PolicyBody>>)}

DomainBody ==
    JObj(("name" :> JStr("dev.example.org")) @@ ("minimum_ttl" :> JNum(3600))
         @@ ("created" :> JStr("2022-11-12T18:01:35Z"))
         @@ ("published" :> JStr("2022-11-12T18:03:19Z")))
KeyedDomainBody ==
    JObj(("name" :> JStr("example.org")) @@ ("minimum_ttl" :> JNum(60))
         @@ ("keys" :> JArr(<<JObj(("dnskey" :> JStr("257 3 13 WFRl60"))
                                   @@ ("ds" :> JArr(<<JStr("6006 13 1 8581e9")>>))
                                   @@ ("flags" :> JNum(257))
                                   @@ ("keytype" :> JStr("csk")))>>)))
DomainContents ==
    {CEmpty, CText, JNull, DetailBody, DomainBody, JArr(<<>>),
     JArr(<<DomainBody, KeyedDomainBody>>)}

Emails == {"email@example.com", ""}
Passwords == {"secret"}
Captchas == {Captcha("00010203", "", "12H45")}
Registrations ==
    {Registration(e, p, "", c) : e \in Emails, p \in Passwords,
                                 c \in {None} \cup {Some(x) : x \in Captchas}}
SessionTokens == {"f07Q0TRmEb", ""}
AccountContents == {CText, DetailBody}

\* the server's clock
Times == {"2020-05-06T11:46:07Z", "2020-05-07T08:00:00Z"}

\* the transport's answers to one request
Outcomes(contents) ==
    {TransportFailure}
    \cup {Response(s, TRUE, b) : s \in Statuses, b \in contents}
    \cup {Response(s, FALSE, CEmpty) : s \in Statuses}

(****************** goroutines sharing one client ***************************)
Goroutines == {"g1", "g2"}
\* a goroutine that is not in a call
NoCall ==
    [pc |-> "idle", op |-> "none", domainName |-> "", ctx |-> "none", seen |-> None,
     endpoint |-> None, req |-> None, sent |-> 0, out |-> None,
     ret |-> [val |-> None, err |-> NoError]]
\* the operations goroutines call: two that take a context (one on an item,
\* one on a batch) and two that do not (one on an item, one listing)
SharedOps == {"Records.Get", "Records.BulkCreate", "legacy Domains.Get",
              "legacy Domains.GetAll"}
\* the batch handed to BulkCreate
SharedBatch ==
    << RRSet("", "example.com", "www", "A", Some(<<"1.1.1.1">>), 300, None, None),
       RRSet("", "example.com", "", "A", Some(<<"1.1.1.1">>), 300, None, None) >>
\* the operations without a context parameter: their request is made by
\* http.NewRequest and carries no cancellation signal
WithoutContext == {"legacy Domains.Get", "legacy Domains.GetAll"}
\* the transport watches the caller's signal for the other operations
Cancellable(name) == name \notin WithoutContext
\* the first page of a list: the Link header offers the next one
FirstPage ==
    [link |-> <<"next">>] @@ Response(StatusOK, TRUE, JArr(<<JObj("name" :> JStr("example.com"))>>))

\* the answers the transport gives to a shared call
SharedOutcomes ==
    {TransportFailure, Response(StatusOK, TRUE, JObj("name" :> JStr("example.com"))),
     Response(StatusNotFound, TRUE, JObj("detail" :> JStr("Not found."))),
     FirstPage}

(***************************** the machine **********************************)
Init ==
    /\ client \in Clients
    /\ op = "none"
    /\ args = <<>>
    /\ req = None
    /\ resp = None
    /\ ret = [val |-> None, err |-> NoError]
    /\ respBody = "none"
    /\ calls = [g \in Goroutines |-> NoCall]

\* no call's result is pending
Idle == op = "none"

\* The operations that defer resp.Body.Close() once the transport has returned
\* a response; the others return without closing the body.
DefersClose(name) ==
    name \notin {"legacy Records.Get", "legacy Records.GetAll",
                 "legacy Records.Update", "legacy Records.Delete",
                 "Account.Logout", "Account.Register", "Account.PasswordReset",
                 "Account.ChangeEmail", "Account.Delete"}

\* One whole call, made when no result is pending: the operation, its
\* arguments, the transport's answer (seen only when a request was sent) and
\* the result.
Call(name, a, out, r) ==
    /\ op' = name
    /\ args' = a
    /\ req' = r.req
    /\ resp' = IF IsSome(r.req) THEN Some(out) ELSE None
    /\ ret' = r.ret
    /\ respBody' = IF IsNone(r.req) \/ ~out.ok THEN "none"
                   ELSE IF DefersClose(name) THEN "closed" ELSE "open"
    /\ UNCHANGED <<client, calls>>

CallRecordsGetAll ==
    /\ Idle
    /\ \E d \in DomainNames, f \in Filters, out \in Outcomes(RRSetContents) :
           Call("Records.GetAll", [domainName |-> d, filter |-> f], out,
                RecordsService_GetAll(client, d, f, out))

CallRecordsCreate ==
    /\ Idle
    /\ \E rr \in RRSets, out \in Outcomes(RRSetContents) :
           Call("Records.Create", [rrSet |-> rr], out,
                RecordsService_Create(client, rr, out))

CallRecordsGet ==
    /\ Idle
    /\ \E d \in DomainNames, n \in SubNames, t \in RecordTypes,
          out \in Outcomes(RRSetContents) :
           Call("Records.Get", [domainName |-> d, subName |-> n, recordType |-> t], out,
                RecordsService_Get(client, d, n, t, out))

CallRecordsUpdate ==
    /\ Idle
    /\ \E n \in SubNames, rr \in RRSets, out \in Outcomes(RRSetContents) :
           Call("Records.Update",
                [domainName |-> "example.com", subName |-> n, recordType |-> "A",
                 rrSet |-> rr], out,
                RecordsService_Update(client, "example.com", n, "A", rr, out))

CallRecordsReplace ==
    /\ Idle
    /\ \E n \in SubNames, rr \in RRSets, out \in Outcomes(RRSetContents) :
           Call("Records.Replace",
                [domainName |-> "example.com", subName |-> n, recordType |-> "A",
                 rrSet |-> rr], out,
                RecordsService_Replace(client, "example.com", n, "A", rr, out))

CallRecordsDelete ==
    /\ Idle
    /\ \E d \in DomainNames, n \in SubNames, t \in RecordTypes,
          out \in Outcomes(RRSetContents) :
           Call("Records.Delete", [domainName |-> d, subName |-> n, recordType |-> t], out,
                RecordsService_Delete(client, d, n, t, out))

CallRecordsBulkCreate ==
    /\ Idle
    /\ \E d \in DomainNames, l \in RRSetLists, out \in Outcomes(RRSetContents) :
           Call("Records.BulkCreate", [domainName |-> d, rrSets |-> l], out,
                RecordsService_BulkCreate(client, d, l, out))

CallRecordsBulkUpdate ==
    /\ Idle
    /\ \E m \in {FullResource, OnlyFields}, d \in DomainNames, l \in RRSetLists,
          out \in Outcomes(RRSetContents) :
           Call("Records.BulkUpdate", [mode |-> m, domainName |-> d, rrSets |-> l], out,
                RecordsService_BulkUpdate(client, m, d, l, out))

CallRecordsBulkDelete ==
    /\ Idle
    /\ \E d \in DomainNames, l \in RRSetLists, out \in Outcomes(RRSetContents) :
           Call("Records.BulkDelete",
                [domainName |-> d, rrSets |-> l, after |-> CallerRRSets(l)], out,
                RecordsService_BulkDelete(client, d, l, out))

CallTokensGet ==
    /\ Idle
    /\ \E id \in TokenIDs, out \in Outcomes(TokenContents) :
           Call("Tokens.Get", [id |-> id], out, TokensService_Get(client, id, out))

CallTokensUpdate ==
    /\ Idle
    /\ \E id \in TokenIDs, t \in Tokens, out \in Outcomes(UpdatedTokenContents) :
           Call("Tokens.Update", [id |-> id, token |-> t], out,
                TokensService_Update(client, id, t, out))

CallTokenPoliciesGetAll ==
    /\ Idle
    /\ \E name \in {"TokenPolicies.GetAll", "Tokens.GetPolicies"}, id \in TokenIDs,
          out \in Outcomes(PolicyListContents) :
           Call(name, [tokenID |-> id], out,
                TokenPoliciesService_GetAll(client, id, out))


CallTokensDelete ==
    /\ Idle
    /\ \E id \in TokenIDs, out \in Outcomes({CEmpty, DetailBody}) :
           Call("Tokens.Delete", [id |-> id], out, TokensService_Delete(client, id, out))

CallTokenPoliciesDelete ==
    /\ Idle
    /\ \E id \in TokenIDs, pid \in PolicyIDs \cup {""},
          out \in Outcomes({CEmpty, DetailBody}) :
           Call("TokenPolicies.Delete", [tokenID |-> id, policyID |-> pid], out,
                TokenPoliciesService_Delete(client, id, pid, out))


CallTokenPoliciesCreate ==
    /\ Idle
    /\ \E pol \in Policies, out \in Outcomes(PolicyContents) :
           Call("TokenPolicies.Create", [tokenID |-> "aaa", policy |-> pol], out,
                TokenPoliciesService_Create(client, "aaa", pol, out))

CallTokenPoliciesUpdate ==
    /\ Idle
    /\ \E pid \in PolicyIDs, pol \in Policies, out \in Outcomes(PolicyContents) :
           Call("TokenPolicies.Update",
                [tokenID |-> "aaa", policyID |-> pid, policy |-> pol], out,
                TokenPoliciesService_Update(client, "aaa", pid, pol, out))

CallAccountLogout ==
    /\ Idle
    /\ \E t \in SessionTokens, out \in Outcomes(AccountContents) :
           Call("Account.Logout", [token |-> t], out,
                AccountClient_Logout(client, t, out))

CallAccountRegister ==
    /\ Idle
    /\ \E r \in Registrations, out \in Outcomes(AccountContents) :
           Call("Account.Register", [registration |-> r], out,
                AccountClient_Register(client, r, out))

CallAccountPasswordReset ==
    /\ Idle
    /\ \E e \in Emails, c \in Captchas, out \in Outcomes(AccountContents) :
           Call("Account.PasswordReset", [email |-> e, captcha |-> c], out,
                AccountClient_PasswordReset(client, e, c, out))

CallAccountChangeEmail ==
    /\ Idle
    /\ \E e \in Emails, p \in Passwords, n \in Emails,
          out \in Outcomes(AccountContents) :
           Call("Account.ChangeEmail", [email |-> e, password |-> p, newEmail |-> n],
                out, AccountClient_ChangeEmail(client, e, p, n, out))

CallAccountDelete ==
    /\ Idle
    /\ \E e \in Emails, p \in Passwords, out \in Outcomes(AccountContents) :
           Call("Account.Delete", [email |-> e, password |-> p], out,
                AccountClient_Delete(client, e, p, out))

CallRecordsCreateThenGet ==
    /\ Idle
    /\ \E rr \in RRSets, t1 \in Times, t2 \in Times :
           \E r \in {CreateThenGet(client, rr, t1, t2)} :
               Call("Records.Create, Records.Get",
                    [rrSet |-> rr, created |-> r.created.ret], r.answer, r.got)

\* what the server holds before a bulk deletion
ServerTime == "2020-05-06T11:46:07Z"
Stores == SUBSET {Stored(n, "A", ServerTime) : n \in {"", "www", "mail"}}

\* BulkDelete answered by the server, then, if it succeeded, Get of one RRset
\* of the domain answered by the server
CallRecordsBulkDeleteThenGet ==
    /\ Idle
    /\ \E store \in Stores, l \in RRSetLists, n \in {"", "www", "mail"} :
       \E sent \in {RecordsService_BulkDelete(client, "example.com", l,
                                              TransportFailure).req} :
       \E s \in {IF IsNone(sent) THEN [answer |-> TransportFailure, store |-> store]
                 ELSE Server_BulkPut(client, Val(sent), store, ServerTime)} :
       \E deleted \in {RecordsService_BulkDelete(client, "example.com", l, s.answer)} :
       \E asked \in {RecordsService_Get(client, "example.com", n, "A",
                                        TransportFailure).req} :
       \E answer \in {IF deleted.ret.err.kind /= "none" THEN s.answer
                      ELSE Server_GetFrom(client, Val(asked), s.store, ServerTime)} :
       \E got \in {IF deleted.ret.err.kind /= "none" THEN deleted
                   ELSE RecordsService_Get(client, "example.com", n, "A", answer)} :
           Call("Records.BulkDelete, Records.Get",
                [store |-> store, rrSets |-> l, subName |-> n,
                 deleted |-> deleted.ret],
                answer, got)

CallDomainsGetResponsible ==
    /\ Idle
    /\ \E q \in QualifiedNames, out \in Outcomes(DomainContents) :
           Call("Domains.GetResponsible", [qualifiedName |-> q], out,
                DomainsService_GetResponsible(client, q, out))

CallLegacyDomainsCreate ==
    /\ Idle
    /\ \E d \in DomainNames, out \in Outcomes(DomainContents) :
           Call("legacy Domains.Create", [domainName |-> d], out,
                Legacy_DomainsService_Create(client, d, out))


CallLegacyDomainsDelete ==
    /\ Idle
    /\ \E d \in DomainNames, out \in Outcomes({CEmpty, DetailBody}) :
           Call("legacy Domains.Delete", [domainName |-> d], out,
                Legacy_DomainsService_Delete(client, d, out))


CallLegacyDomainsGet ==
    /\ Idle
    /\ \E d \in DomainNames, out \in Outcomes(DomainContents) :
           Call("legacy Domains.Get", [domainName |-> d], out,
                Legacy_DomainsService_Get(client, d, out))

CallLegacyRecordsGet ==
    /\ Idle
    /\ \E d \in DomainNames, n \in SubNames, t \in RecordTypes,
          out \in Outcomes(RRSetContents) :
           Call("legacy Records.Get",
                [domainName |-> d, subName |-> n, recordType |-> t], out,
                Legacy_RecordsService_Get(client, d, n, t, out))

CallLegacyRecordsGetAll ==
    /\ Idle
    /\ \E d \in DomainNames, f \in Filters, out \in Outcomes(RRSetContents) :
           Call("legacy Records.GetAll", [domainName |-> d, filter |-> f], out,
                Legacy_RecordsService_GetAll(client, d, f, out))

CallLegacyRecordsUpdate ==
    /\ Idle
    /\ \E n \in SubNames, l \in RecordLists, out \in Outcomes(RRSetContents) :
           Call("legacy Records.Update",
                [domainName |-> "example.com", subName |-> n, recordType |-> "A",
                 records |-> l], out,
                Legacy_RecordsService_Update(client, "example.com", n, "A", l, out))

CallLegacyRecordsDelete ==
    /\ Idle
    /\ \E d \in DomainNames, n \in SubNames, t \in RecordTypes,
          out \in Outcomes(RRSetContents) :
           Call("legacy Records.Delete",
                [domainName |-> d, subName |-> n, recordType |-> t], out,
                Legacy_RecordsService_Delete(client, d, n, t, out))

\* the caller takes the result; nothing of the call stays behind
Discard ==
    /\ op /= "none"
    /\ op' = "none"
    /\ args' = <<>>
    /\ req' = None
    /\ resp' = None
    /\ ret' = [val |-> None, err |-> NoError]
    /\ respBody' = "none"
    /\ UNCHANGED <<client, calls>>

Next ==
    \/ Discard
    \/ CallRecordsGetAll
    \/ CallRecordsCreate
    \/ CallRecordsGet
    \/ CallRecordsUpdate
    \/ CallRecordsReplace
    \/ CallRecordsDelete
    \/ CallRecordsBulkCreate
    \/ CallRecordsBulkUpdate
    \/ CallRecordsBulkDelete
    \/ CallTokensGet
    \/ CallTokensUpdate
    \/ CallTokenPoliciesGetAll
    \/ CallTokensDelete
    \/ CallTokenPoliciesDelete
    \/ CallTokenPoliciesCreate
    \/ CallTokenPoliciesUpdate
    \/ CallRecordsCreateThenGet
    \/ CallRecordsBulkDeleteThenGet
    \/ CallDomainsGetResponsible
    \/ CallAccountLogout
    \/ CallAccountRegister
    \/ CallAccountPasswordReset
    \/ CallAccountChangeEmail
    \/ CallAccountDelete
    \/ CallLegacyDomainsCreate
    \/ CallLegacyDomainsDelete
    \/ CallLegacyDomainsGet
    \/ CallLegacyRecordsGet
    \/ CallLegacyRecordsGetAll
    \/ CallLegacyRecordsUpdate
    \/ CallLegacyRecordsDelete

Spec == Init /\ [][Next]_vars

(******************* createEndpoint and parseCursor alone *******************)
\* the *url.Error of url.Parse and url.ParseRequestURI, returned as it is
URLError == Error("url", "parse", 0, None, "")

(* The Link header as link.ParseHeader returns it: the links by relation,   *)
(* each with the URI of its target.  A URI is malformed (ParseRequestURI    *)
(* rejects it) or has a query.                                              *)
Link(query) == [ok |-> TRUE, query |-> query]
MalformedLink == [ok |-> FALSE, query |-> NoQuery]
Cursors(first, prev, next) == [First |-> first, Prev |-> prev, Next |-> next]

\* url.Values.Get("cursor") on the link of a relation; no link, no value
CursorOf(links, rel) ==
    IF rel \in DOMAIN links /\ "cursor" \in DOMAIN links[rel].query
    THEN links[rel].query["cursor"] ELSE ""

\* parseCursor asking for all three relations
parseCursor_AllThree(links) ==
    IF \/ \E s \in DOMAIN links : ~links[s].ok
       \/ ~({"first", "prev", "next"} \subseteq DOMAIN links)
    THEN [val |-> None, err |-> URLError]
    ELSE [val |-> Some(Cursors(CursorOf(links, "first"), CursorOf(links, "prev"),
                               CursorOf(links, "next"))),
          err |-> NoError]

\* parseCursor: every link of the header is parsed, whatever its relation,
\* and the first URI that does not parse ends it with that error; first,
\* prev and next set their field, any other relation sets none.
parseCursor(links) ==
    IF \E s \in DOMAIN links : ~links[s].ok
    THEN [val |-> None, err |-> URLError]
    ELSE [val |-> Some(Cursors(CursorOf(links, "first"), CursorOf(links, "prev"),
                               CursorOf(links, "next"))),
          err |-> NoError]

Relations == {"first", "prev", "next", "last"}
LinkTargets ==
    {MalformedLink, Link(NoQuery), Link("cursor" :> ""), Link("cursor" :> ":cursor")}
LinkHeaders == UNION {[rels -> LinkTargets] : rels \in SUBSET Relations}

\* a BaseURL that is the root of its host: "https://desec.io/"
RootBaseURL == [ok |-> TRUE, path |-> <<"">>, query |-> NoQuery]
\* a BaseURL without a trailing slash: "https://desec.io/api/v1"
OpenBaseURL == [ok |-> TRUE, path |-> <<"api", "v1">>, query |-> NoQuery]
\* the base URLs createEndpoint is given, each also with a query string
EndpointBases ==
    {MalformedBaseURL}
    \cup { [b EXCEPT !.query = q] :
             b \in {DefaultBaseURL, ServerBaseURL, RootBaseURL, OpenBaseURL},
             q \in {NoQuery, "page" :> "2"} }
Segments == {"domains", "example.com", ""}
SegmentLists == UNION {[1..n -> Segments] : n \in 0..MaxSegments}

\* the BaseURL string of a URL createEndpoint produced: String() and
\* url.Parse keep the path and the query of an absolute URL
AsBaseURL(u) == [ok |-> TRUE, path |-> u.path, query |-> u.query]

EndpointInit ==
    /\ client \in {[BaseURL |-> b, token |-> "token"] : b \in EndpointBases}
    /\ op = "none"
    /\ args = <<>>
    /\ req = None
    /\ resp = None
    /\ ret = [val |-> None, err |-> NoError]
    /\ respBody = "none"
    /\ calls = [g \in Goroutines |-> NoCall]

\* createEndpoint(parts...) on the client's BaseURL
BuildAnEndpoint ==
    /\ Idle
    /\ \E parts \in SegmentLists :
         \E e \in {createEndpoint(client, parts)} :
           /\ op' = "createEndpoint"
           /\ args' = [base |-> client.BaseURL, parts |-> parts]
           /\ ret' = [val |-> IF e.err THEN None ELSE Some(e.url),
                      err |-> IF e.err THEN URLError ELSE NoError]
    /\ UNCHANGED <<client, req, resp, respBody, calls>>

\* createEndpoint() with the URL it has just produced as BaseURL
BuildItAgain ==
    /\ op = "createEndpoint" /\ IsSome(ret.val)
    /\ \E e \in {createEndpoint([client EXCEPT !.BaseURL = AsBaseURL(Val(ret.val))], <<>>)} :
           /\ op' = "createEndpoint, createEndpoint"
           /\ args' = [base |-> AsBaseURL(Val(ret.val)), parts |-> <<>>,
                       first |-> Val(ret.val)]
           /\ ret' = [val |-> IF e.err THEN None ELSE Some(e.url),
                      err |-> IF e.err THEN URLError ELSE NoError]
    /\ UNCHANGED <<client, req, resp, respBody, calls>>

\* parseCursor on the Link header of a response
ParseACursor ==
    /\ Idle
    /\ \E links \in LinkHeaders :
           /\ op' = "parseCursor"
           /\ args' = [links |-> links]
           /\ ret' = parseCursor(links)
    /\ UNCHANGED <<client, req, resp, respBody, calls>>


PureNext ==
    \/ BuildAnEndpoint
    \/ BuildItAgain
    \/ ParseACursor
    \/ Discard

PureSpec == EndpointInit /\ [][PureNext]_vars


(************** the steps of a call made on a shared client *****************)
\* what a service call leaves untouched: everything the sequential machine has
Apart == <<op, args, req, resp, ret, respBody>>

\* createEndpoint with base.Parse resolving into the client's own URL
AfterEndpoint_InPlace(c, e) ==
    IF e.err THEN c
    ELSE [c EXCEPT !.BaseURL = [ok |-> TRUE, path |-> e.url.path, query |-> e.url.query]]

\* The client after createEndpoint: url.Parse(c.BaseURL) makes a fresh URL of
\* the BaseURL string and base.Parse another, the client is only read.
AfterEndpoint(c, e) == c

EndpointOf(c, call) ==
    CASE call.op = "Records.Get" -> RRSetEndpoint(c, call.domainName, "", "A")
      [] call.op = "Records.BulkCreate"
           -> createEndpoint(c, <<"domains", call.domainName, "rrsets">>)
      [] call.op = "legacy Domains.Get" -> createEndpoint(c, <<"domains", call.domainName>>)
      [] call.op = "legacy Domains.GetAll" -> createEndpoint(c, <<"domains">>)
RequestOf(c, call) ==
    CASE call.op = "Records.Get" -> newRequest(c, "GET", Val(call.endpoint), None)
      [] call.op = "Records.BulkCreate"
           -> newRequest(c, "POST", Val(call.endpoint), Some(EncodeRRSets(SharedBatch)))
      [] OTHER -> legacyRequest(c, "GET", Val(call.endpoint), None)
ResultOf(call) ==
    CASE call.op = "Records.Get"
           -> Decoded(Val(call.req), Val(call.out), StatusOK, "RRSet").ret
      [] call.op = "Records.BulkCreate"
           -> Decoded(Val(call.req), Val(call.out), StatusCreated, "[]RRSet").ret
      [] call.op = "legacy Domains.Get"
           -> LegacyDecoded(Val(call.req), Val(call.out), StatusOK, "Domain").ret
      [] call.op = "legacy Domains.GetAll"
           -> LegacyDecoded(Val(call.req), Val(call.out), StatusOK, "[]Domain").ret

\* where the operation goes on once httpClient.Do has returned, with a
\* response or with an error, when it tries again after an error
AfterDo_Again(call, out) ==
    IF ~out.ok /\ call.sent < 2 THEN "built" ELSE "answered"

\* where the operation goes on once httpClient.Do has returned: to its
\* return, through the error check and the handling of the response
AfterDo(call, out) == "answered"

\* a goroutine enters an operation with a context of its own
Enter(g) ==
    /\ calls[g].pc = "idle"
    /\ \E name \in SharedOps, d \in DomainNames :
           calls' = [calls EXCEPT ![g] =
                        [NoCall EXCEPT !.pc = "entered", !.op = name,
                                       !.domainName = d, !.ctx = "live",
                                       !.seen = Some(client)]]
    /\ UNCHANGED client /\ UNCHANGED Apart

\* createEndpoint: reads BaseURL
BuildEndpoint(g) ==
    /\ calls[g].pc = "entered"
    /\ LET e == EndpointOf(client, calls[g])
       IN  /\ calls' = [calls EXCEPT ![g] =
                  IF e.err
                  THEN [@ EXCEPT !.pc = "returned",
                                 !.ret = [val |-> None, err |-> Wrapped("endpoint")]]
                  ELSE [@ EXCEPT !.pc = "built", !.endpoint = Some(e.url)]]
           /\ client' = AfterEndpoint(client, e)
    /\ UNCHANGED Apart

\* newRequest, or http.NewRequest and the headers: reads the token
BuildRequest(g) ==
    /\ calls[g].pc = "built"
    /\ calls' = [calls EXCEPT ![g] =
                    [@ EXCEPT !.pc = "inflight",
                              !.req = Some(RequestOf(client, calls[g])),
                              !.sent = calls[g].sent + 1]]
    /\ UNCHANGED client /\ UNCHANGED Apart

\* the caller cancels the context while the request is in flight
Cancel(g) ==
    /\ calls[g].pc = "inflight" /\ calls[g].ctx = "live"
    /\ calls' = [calls EXCEPT ![g].ctx = "cancelled"]
    /\ UNCHANGED client /\ UNCHANGED Apart

\* httpClient.Do returns what the server or the network gives; for a request
\* with a cancelled context its only error is the context's
Respond(g) ==
    /\ calls[g].pc = "inflight"
    /\ \E out \in SharedOutcomes :
           /\ out.ok \/ ~(calls[g].ctx = "cancelled" /\ Cancellable(calls[g].op))
           /\ calls' = [calls EXCEPT ![g] = [@ EXCEPT !.pc = AfterDo(calls[g], out),
                                                      !.out = Some(out)]]
    /\ UNCHANGED client /\ UNCHANGED Apart

\* httpClient.Do gives up a request whose context is cancelled
Abort(g) ==
    /\ calls[g].pc = "inflight" /\ calls[g].ctx = "cancelled"
    /\ Cancellable(calls[g].op)
    /\ calls' = [calls EXCEPT ![g] = [@ EXCEPT !.pc = AfterDo(calls[g], Canceled),
                                               !.out = Some(Canceled)]]
    /\ UNCHANGED client /\ UNCHANGED Apart

\* the rest of the operation, up to its return
Return(g) ==
    /\ calls[g].pc = "answered"
    /\ calls' = [calls EXCEPT ![g] = [@ EXCEPT !.pc = "returned",
                                               !.ret = ResultOf(calls[g])]]
    /\ UNCHANGED client /\ UNCHANGED Apart

\* the caller takes the result
Leave(g) ==
    /\ calls[g].pc = "returned"
    /\ calls' = [calls EXCEPT ![g] = NoCall]
    /\ UNCHANGED client /\ UNCHANGED Apart

ConcurrentNext ==
    \E g \in Goroutines :
        \/ Enter(g) \/ BuildEndpoint(g) \/ BuildRequest(g) \/ Cancel(g)
        \/ Respond(g) \/ Abort(g) \/ Return(g) \/ Leave(g)

\* Goroutines are scheduled fairly and the transport honours a cancelled
\* context; nothing makes the server answer.
ConcurrentSpec ==
    /\ Init
    /\ [][ConcurrentNext]_vars
    /\ \A g \in Goroutines :
           /\ WF_vars(BuildEndpoint(g)) /\ WF_vars(BuildRequest(g))
           /\ WF_vars(Abort(g)) /\ WF_vars(Return(g))


(***************************** the claims ***********************************)
\* the last call got a response with this status
Answered == IsSome(resp) /\ Val(resp).ok
Status == Val(resp).status
Succeeded == ret.err.kind = "none"

\* C1: whenever the server answers Records.Update or Records.Replace with 204,
\* the operation returns a nil RRset and no error, whatever the domain,
\* sub-name, type and request RRset.
C1_NoContentIsNilNoError ==
    (op \in {"Records.Update", "Records.Replace"} /\ Answered
        /\ Status = StatusNoContent)
    => (IsNone(ret.val) /\ Succeeded)

\* an Update that emptied the record list of the apex was answered 204
C1_Witness ==
    /\ op = "Records.Update" /\ Answered /\ Status = StatusNoContent
    /\ args.subName = "" /\ args.rrSet.Records = Some(<<>>)
    /\ IsNone(ret.val) /\ Succeeded

\* the segments of a path that are not empty
NonEmpty(path) == SelectSeq(path, LAMBDA x : x /= "")

\* C2: Records.BulkDelete sends one PUT to the rrsets collection of the domain
\* whose body is an array with one entry per input RRset, in input order, each
\* entry carrying the input's fields with the record list an empty array, not
\* null.
C2_BulkDeleteIsFullReplaceOfEmpties ==
    (op = "Records.BulkDelete" /\ IsSome(req))
    => LET r == Val(req)
           in == args.rrSets
       IN  /\ r.method = "PUT"
           /\ args.domainName /= ""
              => r.url.path = NonEmpty(client.BaseURL.path)
                                \o <<"domains", args.domainName, "rrsets", "">>
           /\ IsSome(r.body) /\ Val(r.body).t = "arr"
           /\ Len(Val(r.body).v) = Len(in)
           /\ \A i \in 1..Len(in) :
                 LET entry == Val(r.body).v[i]
                 IN  /\ HasKey(entry, "records")
                     /\ entry.v["records"] = JArr(<<>>)
                     /\ StrField(entry, "name") = in[i].Name
                     /\ StrField(entry, "domain") = in[i].Domain
                     /\ StrField(entry, "subname") = in[i].SubName
                     /\ StrField(entry, "type") = in[i].Type
                     /\ IntField(entry, "ttl") = in[i].TTL
                     /\ PtrField(entry, "created") = in[i].Created
                     /\ PtrField(entry, "touched") = in[i].Touched

\* a BulkDelete of two different RRsets, one with records and one with a nil
\* record list, was sent
C2_Witness ==
    /\ op = "Records.BulkDelete" /\ IsSome(req) /\ Len(args.rrSets) = 2
    /\ args.rrSets[1].Records = Some(<<"1.1.1.1">>)
    /\ args.rrSets[2].Records = None
    /\ args.domainName = "example.com"

\* the status-code contract of the Records operations
Accepted(name) ==
    CASE name \in {"Records.Create", "Records.BulkCreate"} -> {StatusCreated}
      [] name \in {"Records.Get", "Records.GetAll", "Records.BulkUpdate"} -> {StatusOK}
      [] name \in {"Records.Update", "Records.Replace"} -> {StatusOK, StatusNoContent}
      [] name = "Records.Delete" -> {StatusNoContent}
      [] OTHER -> {}
Contracted ==
    op \in {"Records.Create", "Records.BulkCreate", "Records.Get", "Records.GetAll",
            "Records.BulkUpdate", "Records.Update", "Records.Replace",
            "Records.Delete"}
\* the operation reads the body of the response it got
ReadsBody == op /= "Records.Delete" /\ Status /= StatusNoContent

\* C3, as claimed: a Records operation that got a response succeeds exactly
\* when the status is the one the contract lists for it.
C3_SuccessIffContractStatus ==
    (Contracted /\ Answered) => (Succeeded <=> Status \in Accepted(op))

\* C3, amended: every status the contract does not list gives a non-nil error;
\* a listed status gives success unless the operation reads the body and
\* reading or decoding it fails, and then the error is the read or the decode
\* error.
C3_ContractStatusGatesSuccess ==
    (Contracted /\ Answered)
    => /\ Status \notin Accepted(op) => ~Succeeded
       /\ (Status \in Accepted(op) /\ ~ReadsBody) => Succeeded
       /\ (Status \in Accepted(op) /\ ReadsBody)
          => \/ Succeeded /\ Val(resp).readOK /\ IsJSON(Val(resp).content)
             \/ ~Succeeded /\ ret.err.phase = "read" /\ ~Val(resp).readOK
             \/ ~Succeeded /\ ret.err.phase = "decode" /\ Val(resp).readOK
                /\ Val(resp).content /= JNull

\* Create got 200, a 2xx status the contract does not list, and failed
C3_Witness ==
    /\ op = "Records.Create" /\ Answered /\ Status = StatusOK
    /\ Val(resp).content = RRSetBody /\ ~Succeeded

\* the statuses an operation does not hand to handleError
AcceptedStatuses(name) ==
    CASE name \in {"Records.Create", "Records.BulkCreate", "TokenPolicies.Create"}
           -> {StatusCreated}
      [] name \in {"Records.Get", "Records.GetAll", "Records.BulkUpdate",
                   "Records.BulkDelete", "TokenPolicies.Update",
                   "Domains.GetResponsible"} -> {StatusOK}
      [] name \in {"Records.Update", "Records.Replace"} -> {StatusOK, StatusNoContent}
      [] name = "Records.Delete" -> {StatusNoContent}
      [] name = "Tokens.Get" -> {StatusOK, StatusNotFound}
      [] OTHER -> {}
\* the operations whose unexpected statuses go through handleError
UsesHandleError ==
    op \in {"Records.Create", "Records.BulkCreate", "TokenPolicies.Create",
            "Records.Get", "Records.GetAll", "Records.BulkUpdate",
            "Records.BulkDelete", "TokenPolicies.Update", "Domains.GetResponsible",
            "Records.Update", "Records.Replace", "Records.Delete", "Tokens.Get"}

\* C4: when an operation gets a status it does not accept, the error it
\* returns has the NotFound type exactly when the status is 404; for any other
\* non-2xx status it has the APIError type and carries that status code and
\* the raw body of the response; the two are different types.
C4_NotFoundIff404ElseAPIError ==
    (UsesHandleError /\ Answered /\ Status \notin AcceptedStatuses(op))
    => /\ ret.err.kind \in {"NotFound", "APIError"}
       /\ ret.err.kind = "NotFound" <=> Status = StatusNotFound
       /\ (Status \notin 200..299 /\ Status /= StatusNotFound)
          => /\ ret.err.kind = "APIError"
             /\ ret.err.status = Status
             /\ Val(resp).readOK => ret.err.body = Some(Val(resp).content)

\* Records.Get was answered 404 with a detail and returned NotFound with it
C4_Witness ==
    /\ op = "Records.Get" /\ Answered /\ Status = StatusNotFound
    /\ Val(resp).content = DetailBody
    /\ ret.err.kind = "NotFound" /\ ret.err.detail = "Not found."

\* C5: Domains.Get and Records.Get return an error of the NotFound type
\* whenever the server answers 404.
C5_GetReturnsNotFoundOn404 ==
    (op \in {"legacy Domains.Get", "legacy Records.Get", "Records.Get"}
        /\ Answered /\ Status = StatusNotFound)
    => ret.err.kind = "NotFound"

\* C6: Domains.GetResponsible asks for the domain list with owns_qname set to
\* the qualified name; a 200 with an empty list gives a NotFound error, a 200
\* with a non-empty list gives a domain of that list and no error.
C6_GetResponsibleTranslatesEmptyList ==
    op = "Domains.GetResponsible"
    => /\ IsSome(req)
          => /\ Val(req).method = "GET"
             /\ Val(req).url.path = NonEmpty(client.BaseURL.path) \o <<"domains", "">>
             /\ "owns_qname" \in DOMAIN Val(req).url.query
             /\ Val(req).url.query["owns_qname"] = args.qualifiedName
       /\ (Answered /\ Status = StatusOK /\ Val(resp).readOK
              /\ Val(resp).content = JArr(<<>>))
          => (ret.err.kind = "NotFound" /\ IsNone(ret.val))
       /\ (Answered /\ Status = StatusOK /\ Val(resp).readOK
              /\ Val(resp).content.t = "arr" /\ Len(Val(resp).content.v) > 0)
          => /\ Succeeded /\ IsSome(ret.val)
             /\ \E i \in 1..Len(Val(resp).content.v) :
                   Val(ret.val) = DecodeDomainObj(Val(resp).content.v[i])

\* GetResponsible got 200 and an empty list
C6_Witness ==
    /\ op = "Domains.GetResponsible" /\ args.qualifiedName = "git.dev.example.org"
    /\ Answered /\ Status = StatusOK /\ Val(resp).readOK
    /\ Val(resp).content = JArr(<<>>) /\ ret.err.kind = "NotFound"

\* C7: Tokens.Get returns a nil token and no error on 404, and a non-nil error
\* for a transport failure and for every status other than 200 and 404; a nil
\* token without an error is returned for nothing but a 404.
C7_TokenAbsentIsNotAnError ==
    op = "Tokens.Get"
    => /\ (Answered /\ Status = StatusNotFound) => (IsNone(ret.val) /\ Succeeded)
       /\ (IsSome(resp) /\ ~Val(resp).ok) => ~Succeeded
       /\ (Answered /\ Status \notin {StatusOK, StatusNotFound}) => ~Succeeded
       /\ (IsNone(ret.val) /\ Succeeded) => (Answered /\ Status = StatusNotFound)

\* Tokens.Get was answered 404
C7_Witness ==
    /\ op = "Tokens.Get" /\ args.id = "aaa" /\ Answered /\ Status = StatusNotFound
    /\ IsNone(ret.val) /\ Succeeded

\* the filter argument of the last call
FilterArg == Val(args.filter)

\* C8: Records.GetAll sends the parameter type (subname) exactly when a filter
\* is given and its Type (SubName) differs from IgnoreFilter, with the field's
\* value, the empty string included; a nil filter sends no parameter.
C8_IgnoredFilterFieldsAreOmitted ==
    (op \in {"Records.GetAll", "legacy Records.GetAll"} /\ IsSome(req))
    => LET q == Val(req).url.query
       IN  /\ "type" \in DOMAIN q
              <=> (IsSome(args.filter) /\ FilterArg.Type /= IgnoreFilter)
           /\ "type" \in DOMAIN q => q["type"] = FilterArg.Type
           /\ "subname" \in DOMAIN q
              <=> (IsSome(args.filter) /\ FilterArg.SubName /= IgnoreFilter)
           /\ "subname" \in DOMAIN q => q["subname"] = FilterArg.SubName

\* the operations on one RRSet
OnOneRRSet ==
    op \in {"Records.Get", "Records.Update", "Records.Replace", "Records.Delete",
            "legacy Records.Get", "legacy Records.Update", "legacy Records.Delete"}

\* C9: Records.Get, Update, Replace and Delete called with an empty sub-name
\* send their request to the path they use for the sub-name "@": the segment
\* after rrsets is "@", it is not empty and it is not dropped.
C9_EmptySubNameIsApex ==
    (OnOneRRSet /\ IsSome(req) /\ args.subName \in {"", ApexZone})
    => Val(req).url.path
         = NonEmpty(client.BaseURL.path)
           \o NonEmpty(<<"domains", args.domainName, "rrsets", ApexZone,
                         args.recordType>>)
           \o <<"">>

\* Delete was called with an empty sub-name and sent its request
C9_Witness ==
    /\ op = "Records.Delete" /\ args.subName = "" /\ args.domainName = "example.com"
    /\ args.recordType = "A" /\ IsSome(req)
    /\ Val(req).url.path = <<"api", "v1", "domains", "example.com", "rrsets", "@", "A", "">>

\* the JSON of an optional string that is never omitted
Nullable(p) == IF IsNone(p) THEN JNull ELSE JStr(Val(p))

\* C10: the body TokenPolicies.Create and Update send always has the members
\* domain, subname and type, each null when the policy's field is nil.
C10_NilScopeIsSentAsNull ==
    (op \in {"TokenPolicies.Create", "TokenPolicies.Update"} /\ IsSome(req))
    => /\ IsSome(Val(req).body)
       /\ LET body == Val(Val(req).body)
          IN  /\ HasKey(body, "domain") /\ HasKey(body, "subname")
              /\ HasKey(body, "type")
              /\ body.v["domain"] = Nullable(args.policy.Domain)
              /\ body.v["subname"] = Nullable(args.policy.SubName)
              /\ body.v["type"] = Nullable(args.policy.Type)

\* Update sent a policy whose three scoping fields are nil
C10_Witness ==
    /\ op = "TokenPolicies.Update" /\ IsSome(req)
    /\ args.policy.Domain = None /\ args.policy.SubName = None
    /\ args.policy.Type = None
    /\ Val(Val(req).body).v["domain"] = JNull

\* the fields of a token the server manages
ServerManaged == {"id", "token", "created", "last_used", "is_valid"}
\* two tokens that differ in server-managed fields only
SameButServerManaged(t, u) ==
    u = [t EXCEPT !.ID = u.ID, !.Value = u.Value, !.Created = u.Created,
                  !.LastUsed = u.LastUsed, !.IsValid = u.IsValid]

\* C11: the request Tokens.Update sends is the request it sends for every
\* token that differs from the given one only in ID, Value, Created, LastUsed
\* or IsValid, and its body has none of the members id, token, created,
\* last_used, is_valid.
C11_UpdateIgnoresServerManagedFields ==
    (op = "Tokens.Update" /\ IsSome(req))
    => /\ \A u \in Tokens :
            SameButServerManaged(args.token, u)
            => req = TokensService_Update(client, args.id, u, Val(resp)).req
       /\ IsSome(Val(req).body)
       /\ \A k \in ServerManaged : ~HasKey(Val(Val(req).body), k)

\* Update was given a token with every server-managed field set
C11_Witness ==
    /\ op = "Tokens.Update" /\ IsSome(req)
    /\ args.token.ID = "aaa" /\ args.token.Value = "secret"
    /\ IsSome(args.token.Created) /\ IsSome(args.token.LastUsed)
    /\ args.token.IsValid /\ args.token.Name = "my token"
    /\ HasKey(Val(Val(req).body), "name")

\* the mutation operations of the account client
AccountMutations ==
    {"Account.Register", "Account.Logout", "Account.PasswordReset",
     "Account.ChangeEmail", "Account.Delete"}

SansTimestamps(r) == [r EXCEPT !.Created = None, !.Touched = None]

\* C13: when Records.Create of an RRset with a non-empty record list
\* succeeded, Records.Get with the RRset's domain, sub-name (the empty one
\* included) and type succeeds and returns the RRset Create returned, up to
\* the timestamps, with the domain, sub-name, type, records and TTL given.
C13_CreateThenGetRoundTrip ==
    (/\ op = "Records.Create, Records.Get"
     /\ IsSome(args.rrSet.Records) /\ Val(args.rrSet.Records) /= <<>>
     /\ args.created.err.kind = "none")
    => /\ Succeeded /\ IsSome(ret.val) /\ IsSome(args.created.val)
       /\ SansTimestamps(Val(ret.val)) = SansTimestamps(Val(args.created.val))
       /\ \A f \in {"Domain", "SubName", "Type", "Records", "TTL"} :
              Val(ret.val)[f] = args.rrSet[f]

\* an RRset of the apex was created and then read at a later time
C13_Witness ==
    /\ op = "Records.Create, Records.Get" /\ args.created.err.kind = "none"
    /\ args.rrSet.SubName = "" /\ args.rrSet.Records = Some(<<"1.1.1.1">>)
    /\ Succeeded /\ IsSome(ret.val)
    /\ Val(ret.val).Touched /= Val(args.created.val).Touched
    /\ Val(req).method = "GET"

\* the record list the caller gave to the last Update
GivenRecords == IF op = "Records.Update" THEN args.rrSet.Records ELSE args.records

\* C14: the PATCH body of Records.Update has a member only for the fields
\* the caller provided: records is a member exactly when a record list was
\* given, and ttl exactly when a TTL was.
C14_UpdateSendsOnlyProvidedFields ==
    (op \in {"Records.Update", "legacy Records.Update"} /\ IsSome(req))
    => LET body == Val(Val(req).body)
       IN  /\ HasKey(body, "records") <=> IsSome(GivenRecords)
           /\ op = "Records.Update"
              => (HasKey(body, "ttl") <=> args.rrSet.TTL /= 0)

\* C15: whenever an operation that received a response has returned (with an
\* accepted status, an unexpected status, a body that cannot be read or a
\* body that cannot be decoded), the body of the response is closed.
C15_BodyClosedOnReturn ==
    (op /= "none" /\ Answered) => respBody = "closed"

\* the call as the operation makes it alone on the client the goroutine saw
\* when it entered
Alone(call) ==
    LET c   == Val(call.seen)
        out == IF IsSome(call.out) THEN Val(call.out) ELSE TransportFailure
    IN  CASE call.op = "Records.Get"
               -> RecordsService_Get(c, call.domainName, "", "A", out)
          [] call.op = "Records.BulkCreate"
               -> RecordsService_BulkCreate(c, call.domainName, SharedBatch, out)
          [] call.op = "legacy Domains.Get"
               -> Legacy_DomainsService_Get(c, call.domainName, out)
          [] call.op = "legacy Domains.GetAll" -> Legacy_DomainsService_GetAll(c, out)

\* C16: while goroutines make calls on one client, in any interleaving of
\* their steps, the client stays as each call found it, and a call that has
\* returned has sent the request and returned the result the operation gives
\* when it runs alone with the same arguments and the same answer.
C16_CallsDoNotInterfere ==
    \A g \in Goroutines :
        /\ calls[g].pc /= "idle" => client = Val(calls[g].seen)
        /\ calls[g].pc = "returned"
           => /\ calls[g].req = Alone(calls[g]).req
              /\ calls[g].ret = Alone(calls[g]).ret

\* both goroutines have returned from different operations, one answered
C16_Witness ==
    /\ calls["g1"].pc = "returned" /\ calls["g2"].pc = "returned"
    /\ calls["g1"].op = "Records.Get" /\ calls["g2"].op = "legacy Domains.Get"
    /\ IsSome(calls["g1"].req) /\ IsSome(calls["g2"].req)
    /\ calls["g1"].ret.err.kind = "none"

\* C17: a call whose context is cancelled while its request is in flight
\* eventually returns, and if the transport gave it an error, the error it
\* returns carries the context's cancellation.
C17_CancelledCallReturnsCancellation ==
    \A g \in Goroutines :
        (calls[g].pc = "inflight" /\ calls[g].ctx = "cancelled")
        ~> (/\ calls[g].pc = "returned"
            /\ (IsSome(calls[g].out) /\ ~Val(calls[g].out).ok)
               => calls[g].ret.err.detail = "context canceled")

\* the operations of the client that is given a token
OfTokenClient ==
    op \in {"Records.GetAll", "Records.Create", "Records.Get", "Records.Update",
            "Records.Replace", "Records.Delete", "Records.BulkCreate",
            "Records.BulkUpdate", "Records.BulkDelete", "Tokens.Get",
            "Tokens.Update", "TokenPolicies.Create", "TokenPolicies.Update",
            "legacy Domains.Create", "legacy Domains.Get", "legacy Records.Get",
            "legacy Records.GetAll", "legacy Records.Update",
            "legacy Records.Delete"}

\* C18: a request of the client that is given a token has an Authorization
\* header exactly when the token is not empty, and the header is then
\* "Token <token>".
C18_AuthorizationIffToken ==
    (OfTokenClient /\ IsSome(req))
    => LET header == Val(req).header
       IN  /\ "Authorization" \in DOMAIN header <=> client.token /= ""
           /\ "Authorization" \in DOMAIN header
              => header["Authorization"] = <<"Token", client.token>>

\* C19: Records.BulkDelete returns no error whenever the server answers its
\* PUT with 200 and a body that is a list of RRsets or is empty.
C19_BulkDeleteAcceptsEmptyBody ==
    (/\ op = "Records.BulkDelete" /\ Answered /\ Status = StatusOK
     /\ Val(resp).readOK
     /\ Val(resp).content \in {CEmpty, JArr(<<>>), JArr(<<RRSetBody>>)})
    => Succeeded

\* the field of a policy a member of the response sets
PolicyField(k) ==
    CASE k = "domain" -> "Domain" [] k = "subname" -> "SubName" [] k = "type" -> "Type"

\* C20: the policies a listing returns are those of the response array, in
\* its order; a domain, subname or type that is null in the response is a nil
\* field of the policy, and one that is a string is a pointer to that string.
C20_PoliciesListedInOrderNullIsNil ==
    (/\ op \in {"TokenPolicies.GetAll", "Tokens.GetPolicies"}
     /\ Answered /\ Status = StatusOK /\ Val(resp).readOK
     /\ Val(resp).content.t = "arr")
    => LET sent == Val(resp).content.v
       IN  /\ Succeeded /\ IsSome(ret.val)
           /\ Len(Val(ret.val)) = Len(sent)
           /\ \A i \in 1..Len(sent) :
                 /\ Val(ret.val)[i].ID = sent[i].v["id"].v
                 /\ \A k \in {"domain", "subname", "type"} :
                       Val(ret.val)[i][PolicyField(k)]
                         = IF sent[i].v[k] = JNull THEN None
                           ELSE Some(sent[i].v[k].v)

\* a listing of three policies, the first with null domain, subname and type
C20_Witness ==
    /\ op = "TokenPolicies.GetAll" /\ Answered /\ Status = StatusOK
    /\ Val(resp).content = JArr(<<DefaultPolicyBody, TypedPolicyBody, PolicyBody>>)
    /\ Succeeded /\ Len(Val(ret.val)) = 3
    /\ Val(ret.val)[1].Domain = None /\ Val(ret.val)[2].Type = Some("A")

\* the JSON value j holds the string s, at any depth
RECURSIVE Mentions(_, _)
Mentions(j, s) ==
    CASE j.t = "str" -> j.v = s
      [] j.t = "arr" -> \E i \in DOMAIN j.v : Mentions(j.v[i], s)
      [] j.t = "obj" -> \E k \in DOMAIN j.v : Mentions(j.v[k], s)
      [] OTHER -> FALSE

\* the operations of RecordsService (records.go)
OfRecordsService ==
    op \in {"Records.GetAll", "Records.Create", "Records.Get", "Records.Update",
            "Records.Replace", "Records.Delete", "Records.BulkCreate",
            "Records.BulkUpdate", "Records.BulkDelete",
            "Records.Create, Records.Get"}

C22_OneRequestPerCall ==
    \A g \in Goroutines :
        LET call == calls[g]
        IN  /\ call.sent <= 1
            /\ call.pc \in {"inflight", "answered"} => call.sent = 1
            /\ call.pc = "returned"
               => call.sent = (IF IsSome(call.endpoint) THEN 1 ELSE 0)
            /\ (call.op = "Records.BulkCreate" /\ call.sent = 1)
               => Len(Val(Val(call.req).body).v) = Len(SharedBatch)

\* one call returned after the transport failed, the other after the first
\* page of a list, each having sent one request
C22_Witness ==
    /\ calls["g1"].pc = "returned" /\ calls["g1"].op = "Records.BulkCreate"
    /\ calls["g1"].out = Some(TransportFailure) /\ calls["g1"].sent = 1
    /\ calls["g2"].pc = "returned" /\ calls["g2"].op = "legacy Domains.GetAll"
    /\ calls["g2"].out = Some(FirstPage) /\ calls["g2"].sent = 1
    /\ calls["g2"].ret.err.kind = "none"

\* the number of slashes a path ends in
RECURSIVE TrailingSlashes(_)
TrailingSlashes(path) ==
    IF path = <<>> \/ path[Len(path)] /= "" THEN 0
    ELSE 1 + TrailingSlashes(SubSeq(path, 1, Len(path) - 1))

\* a base URL url.Parse accepts with a list of segments that are names
ValidEndpointInput ==
    /\ op = "createEndpoint" /\ args.base.ok
    /\ \A i \in DOMAIN args.parts : args.parts[i] /= ""

\* C23: for a base URL that parses and a list of segments, createEndpoint
\* gives a URL whose path ends in exactly one slash and holds the segments,
\* in their order, right after the base path.
C23_OneTrailingSlashSegmentsInOrder ==
    ValidEndpointInput
    => /\ Succeeded /\ IsSome(ret.val)
       /\ LET path == Val(ret.val).path
              base == NonEmpty(args.base.path)
          IN  /\ TrailingSlashes(path) = 1
              /\ Len(path) >= Len(base) + Len(args.parts)
              /\ SubSeq(path, 1, Len(base)) = base
              /\ SubSeq(path, Len(base) + 1, Len(base) + Len(args.parts)) = args.parts

\* C24: the URL createEndpoint gives carries the query of the base URL,
\* whatever the segments are.
C24_QueryOfBaseIsKept ==
    (op = "createEndpoint" /\ args.base.ok)
    => (IsSome(ret.val) /\ Val(ret.val).query = args.base.query)

\* C25: createEndpoint on the URL createEndpoint produced, with no segments,
\* gives that URL again, for every base URL that parses (one whose path is
\* empty or "/" too) and every segment list.
C25_BuildingAgainChangesNothing ==
    op = "createEndpoint, createEndpoint" => ret.val = Some(args.first)

\* C26: for a Link header whose links are of relations among first, prev and
\* next, each to a URI that parses, parseCursor returns no error and Cursors
\* whose First, Prev and Next are the cursor parameter of the link of that
\* relation, and the empty string where the header has no such link.
C26_MissingRelationsAreEmpty ==
    (/\ op = "parseCursor"
     /\ DOMAIN args.links \subseteq {"first", "prev", "next"}
     /\ \A s \in DOMAIN args.links : args.links[s].ok)
    => /\ Succeeded /\ IsSome(ret.val)
       /\ \A rel \in {"first", "prev", "next"} :
             LET got == CASE rel = "first" -> Val(ret.val).First
                          [] rel = "prev" -> Val(ret.val).Prev
                          [] rel = "next" -> Val(ret.val).Next
             IN  IF rel \in DOMAIN args.links
                 THEN got = (IF "cursor" \in DOMAIN args.links[rel].query
                             THEN args.links[rel].query["cursor"] ELSE "")
                 ELSE got = ""

\* the first page: a first link with an empty cursor, a next link, no prev
C26_Witness ==
    /\ op = "parseCursor" /\ DOMAIN args.links = {"first", "next"}
    /\ args.links["first"] = Link("cursor" :> "")
    /\ args.links["next"] = Link("cursor" :> ":cursor")
    /\ ret.val = Some(Cursors("", "", ":cursor")) /\ Succeeded

ItemSegments(name) ==
    CASE name \in {"Tokens.Get", "Tokens.Update", "Tokens.Delete"} -> 3
      [] name \in {"legacy Domains.Get", "legacy Domains.Delete"} -> 2
      [] name \in {"Records.Get", "Records.Update", "Records.Replace",
                   "Records.Delete"} -> 5
      [] name \in {"TokenPolicies.Update", "TokenPolicies.Delete"} -> 6
      [] OTHER -> 0

\* C28: the request of an operation on one item has a path with one segment
\* for each identifier it was given, the empty identifier too: it is never
\* the path of the collection above the item.
C28_ItemPathHasEveryIdentifier ==
    (ItemSegments(op) > 0 /\ IsSome(req))
    => Len(NonEmpty(Val(req).url.path))
         = Len(NonEmpty(client.BaseURL.path)) + ItemSegments(op)

AskedIsNamed ==
    \E i \in DOMAIN args.rrSets :
        args.rrSets[i].SubName = args.subName /\ args.rrSets[i].Type = "A"

\* the server held the RRset the last call asked for
AskedWasHeld == \E s \in args.store : s.v["subname"] = JStr(args.subName)

\* C30: with a server that removes an RRset whose record list becomes empty,
\* once BulkDelete of a list has returned without error, Get of an RRset
\* named in the list returns a NotFound error, and Get of an RRset of the
\* domain that the list does not name returns it as the server held it
\* before.
C30_BulkDeletedAreGoneOthersStay ==
    (op = "Records.BulkDelete, Records.Get" /\ args.deleted.err.kind = "none")
    => /\ AskedIsNamed => ret.err.kind = "NotFound"
       /\ (~AskedIsNamed /\ AskedWasHeld)
          => /\ Succeeded /\ IsSome(ret.val)
             /\ \E s \in args.store : /\ s.v["subname"] = JStr(args.subName)
                                      /\ Val(ret.val) = DecodeRRSetObj(s)

\* www was deleted in bulk from a server that held www and mail, and Get of
\* www then found nothing
C30_Witness ==
    /\ op = "Records.BulkDelete, Records.Get" /\ args.deleted.err.kind = "none"
    /\ Cardinality(args.store) = 2 /\ args.subName = "www" /\ AskedWasHeld
    /\ Len(args.rrSets) = 1 /\ AskedIsNamed
    /\ ret.err.kind = "NotFound" /\ Val(req).method = "GET"

====
